---- MODULE Spec2Model ----
(***************************************************************************)
(* Charting engine of the NW Michigan watershed client                     *)
(* (src/client/src/Plots.js, the version that starts at line 873).         *)
(*                                                                         *)
(* Records are the objects Papa.parse produces with header: true, so every *)
(* field is a string; parseInt, parseFloat, trim and unary plus are        *)
(* modelled by what they return on the strings the model draws from.       *)
(* Numbers are exact rationals <<n, d>> in lowest terms with d > 0         *)
(* (floating point error is not modelled); integers are <<n>>; NaN, null   *)
(* and undefined are the empty tuple.                                      *)
(***************************************************************************)
EXTENDS Integers, Sequences, FiniteSets, TLC

VARIABLES
  \* Plots: the loaded rows, the two plot slots, their chart models, the rows each
  \* builder filtered, the axis options and the y domain planned for each chart,
  \* and the last export of the download icon
  rawData, plotConfigs, charts, filtered, axes, exported,
  \* one ChartPanel: its props and state, the element its container ref points to,
  \* what it last rendered, and the animation frame callbacks of its readiness gate
  mounted, props, ready, container, dom, rafQueue, raf1, raf2,
  \* history of the gate: the measurement that set ready, whether a callback of a
  \* cleaned-up gate run called setReady, what the last cleanup cancelled, and
  \* whether the gate was restarted since the panel mounted
  readyBy, staleSetReady, lastCancel, restarted,
  \* the chart a ready panel shows: the counts toggle of the panel, the hover state
  \* of the chart instance, and the last pointer event on a box or bar of it
  showCounts, hover, lastPointer,
  \* App: which App renders Plots, and the history of the plot slots: the last
  \* action on them with the list it found, per slot the configuration that
  \* the actions on that slot alone produce, and the clicks on the Update buttons
  \* and the arrows counted up to MaxClicks
  app, lastOp, own, clicks,
  \* FiltersPanel and the App around it: the local filters of the panel, the years
  \* offered by its year selects and whether it has initialized the years; the
  \* filters of the App, whether the App still waits for the rows, whether the
  \* welcome panel was left; the rows of the CSV the panel fetches and the site
  \* names of the markers of the map
  filters, availableYears, didInitYears, appFilters, loading, updateEnabled,
  source, allLocations,
  \* a call of a helper of Plots.js on its own: the arguments and the value returned
  args, result

buildVars == <<rawData, plotConfigs, charts, filtered, axes, exported>>
gateVars == <<mounted, props, ready, container, dom, rafQueue, raf1, raf2,
              readyBy, staleSetReady, lastCancel, restarted>>
tipVars == <<showCounts, hover, lastPointer>>
appVars == <<app, lastOp, own, clicks>>
fnVars == <<args, result>>
panelVars == <<filters, availableYears, didInitYears, appFilters, loading, updateEnabled,
              source, allLocations>>
vars == <<buildVars, gateVars, tipVars, appVars, fnVars, panelVars>>

(***************************************************************************)
(* Bounds of the model                                                     *)
(***************************************************************************)
MaxRows == 2
MaxIdx == 4
MaxLabels == 2
MaxQuantileLen == 5

(***************************************************************************)
(* Values                                                                  *)
(***************************************************************************)
NaN == <<>>
None == <<>>
Null == [isNull |-> TRUE]
Scale == 1000

IsFinite(x) == x # NaN

Abs(n) == IF n < 0 THEN -n ELSE n

RECURSIVE Gcd(_, _)
Gcd(a, b) == IF b = 0 THEN a ELSE Gcd(b, a % b)

\* the rational n/d (d # 0) in lowest terms with a positive denominator
Rat(n, d) ==
  LET g == Gcd(Abs(n), Abs(d))
      s == IF d < 0 THEN -1 ELSE 1
  IN <<(s * n) \div g, (s * d) \div g>>

RAdd(a, b) == Rat(a[1] * b[2] + b[1] * a[2], a[2] * b[2])
RSub(a, b) == Rat(a[1] * b[2] - b[1] * a[2], a[2] * b[2])
RMul(a, b) == Rat(a[1] * b[1], a[2] * b[2])
RDivInt(a, k) == Rat(a[1], a[2] * k)
RLeq(a, b) == a[1] * b[2] <= b[1] * a[2]
RLess(a, b) == a[1] * b[2] < b[1] * a[2]

\* Math.floor and Math.round of a rational: Math.round is floor(x + 1/2)
MathFloor(a) == a[1] \div a[2]
MathCeil(a) == 0 - ((0 - a[1]) \div a[2])
MathAbs(a) == <<Abs(a[1]), a[2]>>
MathRound(a) == (2 * a[1] + a[2]) \div (2 * a[2])

\* JavaScript's % on integers: the remainder takes the sign of the dividend
JsRem(a, b) == IF a >= 0 THEN a % b ELSE -((-a) % b)

\* arr[i] of a JavaScript array of strings (0-based); undefined is falsy, as "" is
ArrayAt(arr, i) == IF i >= 0 /\ i < Len(arr) THEN arr[i + 1] ELSE ""

Includes(arr, x) == \E i \in 1..Len(arr) : arr[i] = x

(***************************************************************************)
(* String conversions on the strings of the model                          *)
(***************************************************************************)
Trim(s) ==
  CASE s = "P " -> "P"
    [] s = " B" -> "B"
    [] s = " A " -> "A"
    [] OTHER -> s

ParseInt(s) ==
  CASE s = "2020" -> <<2020>>
    [] s = "2021" -> <<2021>>
    [] s = "2021.0" -> <<2021>>
    [] s = "3" -> <<3>>
    [] s = "2" -> <<2>>
    [] OTHER -> NaN

ParseFloat(s) ==
  CASE s = "5.0" -> Rat(5, 1)
    [] s = "6.0" -> Rat(6, 1)
    [] s = "7.0" -> Rat(7, 1)
    [] s = "0.0625" -> Rat(1, 16)
    [] s = "-0.0625" -> Rat(-1, 16)
    [] s = "-0.0016" -> Rat(-16, 10000)
    [] s = "0.001" -> Rat(1, 1000)
    [] OTHER -> NaN

\* unary plus on an object key that holds a year
ToNumber(s) ==
  CASE s = "2020" -> Rat(2020, 1)
    [] s = "2021" -> Rat(2021, 1)
    [] s = "2021.0" -> Rat(2021, 1)
    [] OTHER -> NaN

\* keys that Object.keys lists first, in ascending numeric order
IsArrayIndex(s) == s \in {"2020", "2021"}

(***************************************************************************)
(* helpers of Plots.js                                                     *)
(***************************************************************************)
round3(v) == IF IsFinite(v) THEN Rat(MathRound(RMul(v, Rat(Scale, 1))), Scale) ELSE v

\* quantile without the interpolation: the element below the position
quantileBelow(arr, q) ==
  IF Len(arr) = 0 THEN NaN
  ELSE arr[MathFloor(RMul(Rat(Len(arr) - 1, 1), q)) + 1]

\* arr is a sorted array of numbers, q a rational in 0..1
quantile(arr, q) ==
  IF Len(arr) = 0 THEN NaN
  ELSE LET pos == RMul(Rat(Len(arr) - 1, 1), q)
           base == MathFloor(pos)
           rest == RSub(pos, Rat(base, 1))
       IN IF base + 1 < Len(arr)
          THEN RAdd(arr[base + 1], RMul(rest, RSub(arr[base + 2], arr[base + 1])))
          ELSE arr[base + 1]

\* Array.prototype.sort (stable) over pairs <<sort key, element>>, ascending by key
RECURSIVE SortByKey(_)
SortByKey(pairs) ==
  IF Len(pairs) = 0 THEN <<>>
  ELSE LET front == SortByKey(SubSeq(pairs, 1, Len(pairs) - 1))
           x == pairs[Len(pairs)]
           \* x goes after the last element whose key is <= the key of x
           at == IF \E i \in 1..Len(front) : RLeq(front[i][1], x[1])
                 THEN CHOOSE i \in 1..Len(front) :
                        /\ RLeq(front[i][1], x[1])
                        /\ \A j \in (i + 1)..Len(front) : ~RLeq(front[j][1], x[1])
                 ELSE 0
       IN SubSeq(front, 1, at) \o <<x>> \o SubSeq(front, at + 1, Len(front))

\* arr.slice().sort((a, b) => a - b)
SortNumbers(arr) ==
  LET s == SortByKey([i \in 1..Len(arr) |-> <<arr[i], arr[i]>>])
  IN [i \in 1..Len(s) |-> s[i][2]]

RECURSIVE Sum(_)
Sum(arr) == IF Len(arr) = 0 THEN Rat(0, 1) ELSE RAdd(Sum(Tail(arr)), Head(arr))

RECURSIVE SumInt(_)
SumInt(arr) == IF Len(arr) = 0 THEN 0 ELSE Head(arr) + SumInt(Tail(arr))

RECURSIVE MinOf(_)
MinOf(arr) ==
  IF Len(arr) = 1 THEN arr[1]
  ELSE LET m == MinOf(Tail(arr)) IN IF RLeq(arr[1], m) THEN arr[1] ELSE m

RECURSIVE MaxOf(_)
MaxOf(arr) ==
  IF Len(arr) = 1 THEN arr[1]
  ELSE LET m == MaxOf(Tail(arr)) IN IF RLeq(m, arr[1]) THEN arr[1] ELSE m

\* new Set(arr) as the array of its elements: first occurrences, in order
RECURSIVE Dedupe(_)
Dedupe(arr) ==
  IF Len(arr) = 0 THEN <<>>
  ELSE LET d == Dedupe(SubSeq(arr, 1, Len(arr) - 1))
       IN IF Includes(d, arr[Len(arr)]) THEN d ELSE Append(d, arr[Len(arr)])

\* single-word site names of at most maxChars characters stay on one line
wrapLabel(label) == IF label = "" THEN label ELSE <<label>>

(***************************************************************************)
(* wrapLabel on strings as sequences of characters                         *)
(***************************************************************************)
\* the maxChars that buildComparisonChart passes
MaxChars == 12

IsSpace(c) == c = " "

LeastOf(S) == CHOOSE i \in S : \A j \in S : i <= j
GreatestOf(S) == CHOOSE i \in S : \A j \in S : j <= i

\* String.prototype.trim
TrimChars(s) ==
  LET solid == {i \in 1..Len(s) : ~IsSpace(s[i])}
  IN IF solid = {} THEN <<>> ELSE SubSeq(s, LeastOf(solid), GreatestOf(solid))

\* s.split(/\s+/): the pieces between the runs of white space, empty pieces at the
\* ends included
RECURSIVE SplitSpaces(_)
SplitSpaces(s) ==
  LET spaces == {i \in 1..Len(s) : IsSpace(s[i])}
  IN IF spaces = {} THEN <<s>>
     ELSE LET from == LeastOf(spaces)
              to == GreatestOf({j \in from..Len(s) : \A k \in from..j : IsSpace(s[k])})
          IN <<SubSeq(s, 1, from - 1)>> \o SplitSpaces(SubSeq(s, to + 1, Len(s)))

\* arr.join(sep)
RECURSIVE JoinWith(_, _)
JoinWith(arr, sep) ==
  IF Len(arr) = 0 THEN <<>>
  ELSE IF Len(arr) = 1 THEN arr[1]
  ELSE arr[1] \o sep \o JoinWith(Tail(arr), sep)

\* the forEach of wrapLabel over the words left, and the push after it
RECURSIVE WrapWords(_, _, _, _)
WrapWords(words, lines, line, maxChars) ==
  IF Len(words) = 0 THEN IF Len(line) > 0 THEN Append(lines, line) ELSE lines
  ELSE LET w == Head(words)
       IN IF Len(TrimChars(line \o <<" ">> \o w)) <= maxChars
          THEN WrapWords(Tail(words), lines,
                         (IF Len(line) > 0 THEN line \o <<" ">> ELSE <<>>) \o w, maxChars)
          ELSE WrapWords(Tail(words),
                         IF Len(line) > 0 THEN Append(lines, line) ELSE lines, w, maxChars)

\* wrapLabel(label, maxChars) of a string given by its characters
wrapLabelChars(label, maxChars) ==
  IF Len(label) = 0 THEN label
  ELSE LET lines == WrapWords(SplitSpaces(label), <<>>, <<>>, maxChars)
       IN IF Len(lines) > 0 THEN lines ELSE <<label>>

\* String(label) of a label that is an array of lines: the lines joined by commas
LabelKey(label) == JoinWith(label, <<",">>)

\* the text D3BarInner draws for a label and the tooltip shows: the lines joined
\* by single spaces
LabelText(label) == JoinWith(label, <<" ">>)

\* the band of d3.scaleBand().domain(keys) that x(keys[i]) falls into: the domain
\* keeps the first occurrence of every key
BandOf(keys, i) ==
  LET domain == Dedupe(keys)
  IN CHOOSE b \in 1..Len(domain) : domain[b] = keys[i]

\* Object.keys of an object whose keys were inserted in the order ins:
\* array-index keys first, ascending, then the other keys in insertion order
ObjectKeys(ins) ==
  LET idx == SelectSeq(ins, IsArrayIndex)
      sortedIdx == SortByKey([i \in 1..Len(idx) |-> <<ToNumber(idx[i]), idx[i]>>])
  IN [i \in 1..Len(sortedIdx) |-> sortedIdx[i][2]]
     \o SelectSeq(ins, LAMBDA k : ~IsArrayIndex(k))

(***************************************************************************)
(* Record filter (the row predicate of the builders and of the download)   *)
(***************************************************************************)
RowParam(row) == IF row.Parameter # "" THEN Trim(row.Parameter) ELSE ""
RowSite(row) == IF row.Site # "" THEN Trim(row.Site) ELSE ""

InYearRangeStrict(yearNum, cfg) ==
  /\ IsFinite(yearNum)
  /\ (cfg.startYear = None \/ yearNum[1] > cfg.startYear[1])
  /\ (cfg.endYear = None \/ yearNum[1] <= cfg.endYear[1])
InYearRange(yearNum, cfg) ==
  /\ IsFinite(yearNum)
  /\ (cfg.startYear = None \/ yearNum[1] >= cfg.startYear[1])
  /\ (cfg.endYear = None \/ yearNum[1] <= cfg.endYear[1])

WrapIndexNoWrap(idx, count) == JsRem(idx, count)
WrapIndex(idx, count) == JsRem(JsRem(idx, count) + count, count)

\* the site a trend chart displays; "" stands for null (both are falsy)
TrendSite(cfg) ==
  LET selectedSites == cfg.selectedSites
      count == Len(selectedSites)
  IN IF count = 0 THEN ""
     ELSE LET idx0 == IF IsFinite(cfg.trendIndex) THEN cfg.trendIndex[1] ELSE count - 1
              idx == WrapIndex(idx0, count)
          IN IF ArrayAt(selectedSites, idx) # ""
             THEN ArrayAt(selectedSites, idx)
             ELSE ArrayAt(selectedSites, count - 1)

\* the value of a call that raised instead of returning
Thrown == [threw |-> "TypeError"]

\* cfg.selectedSites is null: the arrays of the model are sequences, so a
\* configuration with selectedSites: null carries the field selectedSitesIsNull
\* and its selectedSites is never read
SitesIsNull(cfg) == "selectedSitesIsNull" \in DOMAIN cfg

\* buildTrendChart reads selectedSites.length before anything else
TrendRaises(data, cfg) == SitesIsNull(cfg)

\* buildComparisonChart calls selectedSites.includes for the first row whose
\* parameter is the configured one; new Set(null) is empty and does not raise
ComparisonRaises(data, cfg) ==
  SitesIsNull(cfg) /\ \E i \in 1..Len(data) : RowParam(data[i]) = cfg.parameter

TrendMatch(row, cfg, site) ==
  /\ RowParam(row) = cfg.parameter
  /\ site # "" /\ RowSite(row) = site
  /\ InYearRange(ParseInt(row.Year), cfg)

ComparisonMatch(row, cfg) ==
  /\ RowParam(row) = cfg.parameter
  /\ Includes(cfg.selectedSites, RowSite(row))
  /\ InYearRange(ParseInt(row.Year), cfg)

\* the trend filter that takes the first row for a header line and skips it
TrendFilteredAfterHeader(data, cfg) ==
  IF Len(data) = 0 THEN data
  ELSE SelectSeq(Tail(data), LAMBDA row : TrendMatch(row, cfg, TrendSite(cfg)))

TrendFiltered(data, cfg) ==
  SelectSeq(data, LAMBDA row : TrendMatch(row, cfg, TrendSite(cfg)))

ComparisonFiltered(data, cfg) ==
  SelectSeq(data, LAMBDA row : ComparisonMatch(row, cfg))

(***************************************************************************)
(* buildTrendChart                                                         *)
(***************************************************************************)
\* GroupVals that takes a value only from records whose Avg, Min and Max are all finite
GroupValsOfWholeRecords(rows, field, y) ==
  LET sel == SelectSeq(rows, LAMBDA r : /\ r.Year = y
                                        /\ IsFinite(ParseFloat(r.Avg))
                                        /\ IsFinite(ParseFloat(r.Min))
                                        /\ IsFinite(ParseFloat(r.Max)))
  IN [i \in 1..Len(sel) |-> round3(ParseFloat(sel[i][field]))]

\* groupAvgs[y], groupMins[y], groupMaxs[y]: the finite rounded values of a field
GroupVals(rows, field, y) ==
  LET sel == SelectSeq(rows, LAMBDA r : r.Year = y /\ IsFinite(round3(ParseFloat(r[field]))))
  IN [i \in 1..Len(sel) |-> round3(ParseFloat(sel[i][field]))]

\* the keys of such an object, in insertion order
GroupKeys(rows, field) ==
  LET sel == SelectSeq(rows, LAMBDA r : IsFinite(round3(ParseFloat(r[field]))))
  IN Dedupe([i \in 1..Len(sel) |-> sel[i].Year])

\* countByYear[y] || 0
CountByYear(rows, y) ==
  LET sel == SelectSeq(rows, LAMBDA r : r.Year = y /\ IsFinite(ParseInt(r.Count)))
  IN SumInt([i \in 1..Len(sel) |-> ParseInt(sel[i].Count)[1]])

TrendYears(rows) ==
  LET keys == Dedupe(ObjectKeys(GroupKeys(rows, "Avg"))
                     \o ObjectKeys(GroupKeys(rows, "Min"))
                     \o ObjectKeys(GroupKeys(rows, "Max")))
      s == SortByKey([i \in 1..Len(keys) |-> <<ToNumber(keys[i]), keys[i]>>])
  IN [i \in 1..Len(s) |-> s[i][2]]

\* computeBoxStats of the earlier Plots.js (line 2604); values is not empty
computeBoxStats(values) ==
  LET sorted == SortNumbers(values)
  IN [min |-> sorted[1],
      q1 |-> quantile(sorted, Rat(1, 4)),
      median |-> quantile(sorted, Rat(1, 2)),
      q3 |-> quantile(sorted, Rat(3, 4)),
      max |-> sorted[Len(sorted)]]

\* TrendBox without the sort of the averages
TrendBoxUnsorted(rows, y) ==
  LET avgs == GroupVals(rows, "Avg", y)
      meanAvg == RDivInt(Sum(avgs), Len(avgs))
      mins == GroupVals(rows, "Min", y)
      maxs == GroupVals(rows, "Max", y)
      minVal == IF Len(mins) > 0 THEN MinOf(mins) ELSE meanAvg
      maxVal == IF Len(maxs) > 0 THEN MaxOf(maxs) ELSE meanAvg
  IN [min |-> round3(minVal),
      q1 |-> round3(quantile(avgs, Rat(1, 4))),
      median |-> round3(quantile(avgs, Rat(1, 2))),
      q3 |-> round3(quantile(avgs, Rat(3, 4))),
      max |-> round3(maxVal),
      mean |-> round3(meanAvg)]

\* TrendBox without the fallback to the mean: Math.min() of nothing is not finite
TrendBoxNoFallback(rows, y) ==
  LET avgs == GroupVals(rows, "Avg", y)
      sorted == SortNumbers(avgs)
      meanAvg == RDivInt(Sum(avgs), Len(avgs))
      mins == GroupVals(rows, "Min", y)
      maxs == GroupVals(rows, "Max", y)
      minVal == IF Len(mins) > 0 THEN MinOf(mins) ELSE NaN
      maxVal == IF Len(maxs) > 0 THEN MaxOf(maxs) ELSE NaN
  IN [min |-> round3(minVal),
      q1 |-> round3(quantile(sorted, Rat(1, 4))),
      median |-> round3(quantile(sorted, Rat(1, 2))),
      q3 |-> round3(quantile(sorted, Rat(3, 4))),
      max |-> round3(maxVal),
      mean |-> round3(meanAvg)]

\* the box pushed for year y; avgs is not empty
TrendBox(rows, y) ==
  LET avgs == GroupVals(rows, "Avg", y)
      sorted == SortNumbers(avgs)
      meanAvg == RDivInt(Sum(avgs), Len(avgs))
      mins == GroupVals(rows, "Min", y)
      maxs == GroupVals(rows, "Max", y)
      minVal == IF Len(mins) > 0 THEN MinOf(mins) ELSE meanAvg
      maxVal == IF Len(maxs) > 0 THEN MaxOf(maxs) ELSE meanAvg
  IN [min |-> round3(minVal),
      q1 |-> round3(quantile(sorted, Rat(1, 4))),
      median |-> round3(quantile(sorted, Rat(1, 2))),
      q3 |-> round3(quantile(sorted, Rat(3, 4))),
      max |-> round3(maxVal),
      mean |-> round3(meanAvg)]

buildTrendChart(data, cfg) ==
  IF TrendRaises(data, cfg) THEN Thrown
  ELSE
  LET site == TrendSite(cfg)
      rows == TrendFiltered(data, cfg)
      years == TrendYears(rows)
      boxed == SelectSeq(years, LAMBDA y : Len(GroupVals(rows, "Avg", y)) > 0)
  IN [type |-> "boxplot",
      parameter |-> cfg.parameter,
      site |-> site,
      labels |-> years,
      data |-> [i \in 1..Len(boxed) |-> TrendBox(rows, boxed[i])],
      customCounts |-> [i \in 1..Len(boxed) |-> CountByYear(rows, boxed[i])]]

(***************************************************************************)
(* buildComparisonChart                                                    *)
(***************************************************************************)
\* the rows that reach groups[site]: a site and a finite rounded average
ComparisonGrouped(rows) ==
  SelectSeq(rows, LAMBDA r : RowSite(r) # "" /\ IsFinite(round3(ParseFloat(r.Avg))))

\* SiteVals that keeps the last average of the site only
SiteValsLast(rows, s) ==
  LET sel == SelectSeq(ComparisonGrouped(rows), LAMBDA r : RowSite(r) = s)
  IN <<round3(ParseFloat(sel[Len(sel)].Avg))>>

SiteVals(rows, s) ==
  LET sel == SelectSeq(ComparisonGrouped(rows), LAMBDA r : RowSite(r) = s)
  IN [i \in 1..Len(sel) |-> round3(ParseFloat(sel[i].Avg))]

\* countsBySite[s] || 0
CountBySite(rows, s) ==
  LET sel == SelectSeq(ComparisonGrouped(rows), LAMBDA r : RowSite(r) = s)
  IN SumInt([i \in 1..Len(sel) |->
               IF IsFinite(ParseInt(sel[i].Count)) THEN ParseInt(sel[i].Count)[1] ELSE 0])

buildComparisonChart(data, cfg) ==
  IF ComparisonRaises(data, cfg) THEN Thrown
  ELSE
  LET rows == ComparisonFiltered(data, cfg)
      grouped == ComparisonGrouped(rows)
      sites == ObjectKeys(Dedupe([i \in 1..Len(grouped) |-> RowSite(grouped[i])]))
  IN [type |-> "d3bar",
      parameter |-> cfg.parameter,
      site |-> "",
      labels |-> [i \in 1..Len(sites) |-> wrapLabel(sites[i])],
      data |-> [i \in 1..Len(sites) |->
                  round3(RDivInt(Sum(SiteVals(rows, sites[i])), Len(SiteVals(rows, sites[i]))))],
      customCounts |-> [i \in 1..Len(sites) |-> CountBySite(rows, sites[i])]]

(***************************************************************************)
(* The y axis: computeYRangeForChart, makeOptions, the yDomain of a panel  *)
(***************************************************************************)
\* chartObj.data.datasets[0].data is the data of the model's chart record
computeYRangeForChart(chartObj) ==
  IF chartObj = Null THEN Null
  ELSE IF chartObj.type = "boxplot"
  THEN LET withMin == SelectSeq(chartObj.data, LAMBDA d : IsFinite(d.min))
           withMax == SelectSeq(chartObj.data, LAMBDA d : IsFinite(d.max))
           mins == [i \in 1..Len(withMin) |-> withMin[i].min]
           maxs == [i \in 1..Len(withMax) |-> withMax[i].max]
       IN IF Len(mins) = 0 \/ Len(maxs) = 0 THEN Null
          ELSE [min |-> MinOf(mins), max |-> MaxOf(maxs)]
  ELSE LET vals == SelectSeq(chartObj.data, IsFinite)
       IN IF Len(vals) = 0 THEN Null
          ELSE [min |-> Rat(0, 1), max |-> MaxOf(vals)]

\* the padding of makeOptions for a range
OptionsPad(range) ==
  LET span == RSub(range.max, range.min)
      pad == RMul(span, Rat(16, 100))
  IN IF pad = Rat(0, 1)
     THEN MaxOf(<<RMul(MathAbs(range.max), Rat(2, 100)), Rat(1, 10)>>)
     ELSE pad

\* BoxAxis with both ends rounded toward the data
BoxAxisRoundedInward(range, pad) ==
  [yMin |-> MathCeil(RSub(range.min, pad)),
   yMax |-> MathFloor(RAdd(range.max, RMul(pad, Rat(2, 1))))]

\* yMin and yMax of a box plot before the correction of yMin
BoxAxis(range, pad) ==
  [yMin |-> MathFloor(RSub(range.min, pad)),
   yMax |-> MathCeil(RAdd(range.max, RMul(pad, Rat(2, 1))))]

BarAxis(range, pad) ==
  [yMin |-> MathFloor(range.min),
   yMax |-> MathCeil(RAdd(range.max, RMul(pad, Rat(2, 1))))]

\* ClampMin that leaves yMin alone
ClampMinNever(range, yMin) == yMin

\* if (range.min >= 0 && yMin < 0 && span < 0.5) yMin = 0
ClampMin(range, yMin) ==
  IF /\ RLeq(Rat(0, 1), range.min)
     /\ yMin < 0
     /\ RLess(RSub(range.max, range.min), Rat(1, 2))
  THEN 0
  ELSE yMin

\* the axis part of the options: the range and padding makeOptions worked with,
\* yMin and yMax, and the four bounds of scales.y (undefined is None)
makeOptions(chartObj) ==
  LET range == computeYRangeForChart(chartObj)
      isBox == chartObj # Null /\ chartObj.type = "boxplot"
  IN IF range = Null
     THEN [range |-> Null, pad |-> None, yMin |-> None, yMax |-> None,
           min |-> None, max |-> None, suggestedMin |-> None, suggestedMax |-> None]
     ELSE LET pad == OptionsPad(range)
              axis == IF isBox THEN BoxAxis(range, pad) ELSE BarAxis(range, pad)
              yMin == ClampMin(range, axis.yMin)
              yMax == axis.yMax
          IN [range |-> range, pad |-> pad, yMin |-> <<yMin>>, yMax |-> <<yMax>>,
              min |-> IF isBox THEN <<yMin>> ELSE None,
              max |-> IF isBox THEN <<yMax>> ELSE None,
              suggestedMin |-> IF isBox THEN None ELSE <<IF yMin > 0 THEN yMin ELSE 0>>,
              suggestedMax |-> IF isBox THEN None ELSE <<yMax>>]

\* the padding of the yDomain a panel hands to its chart
DomainPad(range) ==
  LET pad == RMul(RSub(range.max, range.min), Rat(1, 10))
  IN IF pad = Rat(0, 1) THEN Rat(1, 1) ELSE pad

\* the yDomain prop of D3Boxplot and of D3Bar; a panel without labels shows no chart
PanelYDomain(chartObj) ==
  LET range == computeYRangeForChart(chartObj)
  IN IF range = Null \/ Len(chartObj.labels) = 0 THEN Null
     ELSE LET pad == DomainPad(range)
              low == RSub(range.min, pad)
          IN [pad |-> pad,
              min |-> IF chartObj.type = "boxplot" THEN low
                      ELSE MaxOf(<<Rat(0, 1), low>>),
              max |-> RAdd(range.max, pad)]

\* options1 / options2 of Plots and the yDomain of the panel of the slot; a render
\* of Plots that raised in a builder computes neither
AxesFor(chartObj) ==
  IF chartObj = Thrown THEN Thrown
  ELSE [options |-> makeOptions(chartObj), yDomain |-> PanelYDomain(chartObj)]

(***************************************************************************)
(* Plots: the two chart slots and the download                             *)
(***************************************************************************)
\* chart1 / chart2 of Plots: the useMemo callbacks call the builders outside any
\* try block, so what a builder raises leaves the render of Plots
ChartFor(data, cfg) ==
  IF cfg = Null THEN Null
  ELSE IF cfg.chartType = "trend" THEN buildTrendChart(data, cfg)
  ELSE buildComparisonChart(data, cfg)

\* the local `filtered` of the builder that ChartFor runs
FilteredFor(data, cfg) ==
  IF cfg = Null THEN <<>>
  ELSE IF SitesIsNull(cfg) THEN <<>>
  ELSE IF cfg.chartType = "trend" THEN TrendFiltered(data, cfg)
  ELSE ComparisonFiltered(data, cfg)

\* a builder raised during the render of Plots; nothing catches it (the module has
\* no error boundary), so React removes the component tree
Raised(cs) == \E s \in 1..Len(cs) : cs[s] = Thrown

\* the row predicate of handleDownload
DownloadMatch(row, cfg) ==
  /\ RowParam(row) = cfg.parameter
  /\ Includes(cfg.selectedSites, RowSite(row))
  /\ IsFinite(ParseInt(row.Year))
  /\ (cfg.startYear = None \/ ParseInt(row.Year)[1] >= cfg.startYear[1])
  /\ (cfg.endYear = None \/ ParseInt(row.Year)[1] <= cfg.endYear[1])

\* the rows handleDownload hands to Papa.unparse
DownloadRows(data, cfg) ==
  SelectSeq(data, LAMBDA row : DownloadMatch(row, cfg))

(***************************************************************************)
(* Inputs                                                                  *)
(***************************************************************************)
SeqsUpTo(S, n) == UNION {[1..k -> S] : k \in 0..n}

\* rows that differ in what the record filter reads
FilterRows ==
  [Parameter : {"P ", "Q"}, Site : {"A", " B"}, Year : {"2020", "2021.0", "n/a"},
   Avg : {"5.0"}, Min : {""}, Max : {""}, Count : {"3"}]

YearRanges == {<<None, None>>, <<(<<2021>>), None>>, <<None, (<<2020>>)>>}

SiteLists == {<<>>, <<"A">>, <<"B">>, <<"A", "B">>, <<"B", "A">>}

Config(ct, ss, yr, ti) ==
  [parameter |-> "P", selectedSites |-> ss, chartType |-> ct,
   startYear |-> yr[1], endYear |-> yr[2], trendIndex |-> ti]

\* a comparison configuration carries no trendIndex
FilterConfigs ==
  {Config("trend", ss, yr, ti) : ss \in SiteLists, yr \in YearRanges, ti \in {None, <<0>>}}
  \cup {Config("comparison", ss, yr, None) : ss \in SiteLists, yr \in YearRanges}

\* rows of one site, parameter and year that differ in the values of a box
TrendStatRows ==
  [Parameter : {"P"}, Site : {"A"}, Year : {"2020"},
   Avg : {"5.0", "6.0", "7.0"}, Min : {"5.0", ""}, Max : {"6.0", ""}, Count : {"3"}]

\* rows of one site and parameter that differ in what decides the groups of a trend
TrendGroupRows ==
  [Parameter : {"P"}, Site : {"A"}, Year : {"2020", "2021"},
   Avg : {"5.0", ""}, Min : {"5.0", ""}, Max : {""}, Count : {"3", "2", ""}]

\* rows of one year that differ in what the comparison aggregation reads
ComparisonRows ==
  [Parameter : {"P"}, Site : {"A", " B"}, Year : {"2020"},
   Avg : {"5.0", "7.0", "n/a"}, Min : {""}, Max : {""}, Count : {"3", "2", ""}]

\* rows of one site and year whose values fall on and off a rounding tie
RoundRows ==
  [Parameter : {"P"}, Site : {"A"}, Year : {"2020"},
   Avg : {"0.0625", "-0.0625", "-0.0016", "0.001"},
   Min : {"-0.0625", ""}, Max : {"0.0625", ""}, Count : {"3"}]

\* one row per site
SiteRows ==
  [Parameter : {"P"}, Site : {"A", " B", "C"}, Year : {"2020"},
   Avg : {"5.0"}, Min : {""}, Max : {""}, Count : {"3"}]

\* the orderings of up to three selected sites
SitePicks ==
  {ss \in SeqsUpTo({"A", "B", "C"}, 3) : \A i, j \in 1..Len(ss) : i # j => ss[i] # ss[j]}

TrendIndexes == {None} \cup {<<i>> : i \in (0 - MaxIdx)..MaxIdx}

(***************************************************************************)
(* The readiness gate of a chart panel                                     *)
(***************************************************************************)
\* the props of a panel that the gate and the render branch read: cfg.parameter,
\* cfg.chartType, chartObj.type, the number of labels, and rev for everything else
\* of the chart model; Null is a panel without a configuration
ChartTypeOf(chartType) == IF chartType = "trend" THEN "boxplot" ELSE "d3bar"

PanelProps ==
  {Null} \cup
  {[parameter |-> pa, chartType |-> ct, type |-> ChartTypeOf(ct), labels |-> n, rev |-> r] :
     pa \in {"P", "Q"}, ct \in {"trend", "comparison"}, n \in 0..MaxLabels, r \in {0, 1}}

Containers == [inDoc : BOOLEAN, width : {0, 1}, height : {0, 1}]

\* the dependency array of the layout effect; without a configuration every
\* entry is undefined
GateDeps(p) ==
  IF p = Null THEN <<"undefined", "undefined", "undefined", None>>
  ELSE <<p.parameter, p.chartType, p.type, <<p.labels>>>>

\* containerRef.current after a render: the plot-content element carries the ref
\* only in the branch that shows a chart
HasRef(p) == p # Null /\ p.labels > 0

\* Render without the branch for a chart model without labels
RenderWithoutNoData(p, rdy) ==
  IF p = Null THEN [kind |-> "prompt", of |-> Null]
  ELSE IF ~rdy THEN [kind |-> "blank", of |-> Null]
  ELSE [kind |-> "chart", of |-> p]

\* what the panel renders
Render(p, rdy) ==
  IF p = Null THEN [kind |-> "prompt", of |-> Null]
  ELSE IF p.labels = 0 THEN [kind |-> "nodata", of |-> Null]
  ELSE IF ~rdy THEN [kind |-> "blank", of |-> Null]
  ELSE [kind |-> "chart", of |-> p]

\* the props Plots gives the panel of a slot, as far as the panel's branches read
\* them
PanelPropsFor(cfg, chartObj) ==
  IF cfg = Null THEN Null
  ELSE IF chartObj = Null
  THEN [parameter |-> cfg.parameter, chartType |-> cfg.chartType,
        type |-> "undefined", labels |-> 0, rev |-> 0]
  ELSE [parameter |-> cfg.parameter, chartType |-> cfg.chartType,
        type |-> chartObj.type, labels |-> Len(chartObj.labels), rev |-> 0]

\* what Plots shows in the place of a slot: without rows it returns the loading
\* paragraph and renders no panel
SlotView(data, cfg, chartObj, rdy) ==
  IF Len(data) = 0 THEN [kind |-> "loading", of |-> Null]
  ELSE Render(PanelPropsFor(cfg, chartObj), rdy)

\* requestAnimationFrame returns a handle that differs from every handle that is
\* pending or still held; the model takes the least such handle
Handles(queue) == {cb.id : cb \in queue}
FreshHandle(used) == CHOOSE i \in 1..(Cardinality(used) + 1) : i \notin used
Held(h) == IF h = None THEN {} ELSE {h[1]}

\* the handles the cleanup of the effect passes to cancelAnimationFrame
CleanupCancelsFirstOnly(r1, r2) == Held(r1)
CleanupCancels(r1, r2) == Held(r1) \cup Held(r2)

\* the callbacks left after the cleanup; they belong to a gate run that is over
AfterCleanup(queue, r1, r2) ==
  {[cb EXCEPT !.stale = TRUE] : cb \in {c \in queue : c.id \notin CleanupCancels(r1, r2)}}

\* which pending callback the cleanup removed
CancelKind(queue, r1, r2) ==
  IF Held(r2) \cap Handles(queue) # {} THEN "repoll"
  ELSE IF Held(r1) \cap Handles(queue) # {} THEN "first"
  ELSE "none"

\* ready after the body of the effect: setReady(false)
EffectReadyKept(rdy) == rdy
EffectReady(rdy) == FALSE

\* the test of ensureReady on the element el that the effect captured
ObservedReady(hasEl, c) ==
  /\ hasEl /\ c.inDoc
  /\ hasEl /\ c.width > 0 /\ c.height > 0

GateIdle ==
  /\ mounted = FALSE
  /\ props = Null
  /\ ready = FALSE
  /\ container = [inDoc |-> FALSE, width |-> 0, height |-> 0]
  /\ dom = [kind |-> "none", of |-> Null]
  /\ rafQueue = {}
  /\ raf1 = None
  /\ raf2 = None
  /\ readyBy = Null
  /\ staleSetReady = FALSE
  /\ lastCancel = "none"
  /\ restarted = FALSE
  /\ showCounts = FALSE
  /\ hover = Null
  /\ lastPointer = Null

\* the key of the chart element of a ready panel
ChartKey(p, counts) == <<p.type, p.parameter, p.chartType, p.labels, counts>>

\* the chart instance of the panel outlives the step: the panel shows a chart
\* before and after it, under the same key
SameInstance ==
  /\ dom.kind = "chart" /\ dom'.kind = "chart"
  /\ ChartKey(dom.of, showCounts) = ChartKey(dom'.of, showCounts')

\* hover state that outlives its chart instance
HoverAfterKept(h, same) == h

\* the hover state of a chart instance lives as long as the instance
HoverAfter(h, same) == IF same THEN h ELSE Null

\* the pointer history of an instance ends with the instance
PointerAfter(last, same) ==
  IF same \/ last = Null THEN last
  ELSE IF last.kind = "ended" THEN last
  ELSE [kind |-> "ended", was |-> last.kind]

TipFollows ==
  /\ hover' = HoverAfter(hover, SameInstance)
  /\ lastPointer' = PointerAfter(lastPointer, SameInstance)

\* no helper called on its own
FnIdle ==
  /\ args = Null
  /\ result = Null

\* the state useState gives the filters of FiltersPanel and of the App
InitialFilters ==
  [selectedSites |-> <<>>, parameter |-> "", startYear |-> None, endYear |-> None,
   chartType |-> "trend"]

\* the filters panel as mounted, beside an App that holds the rows and has left the
\* welcome panel
PanelIdle ==
  /\ filters = InitialFilters
  /\ availableYears = <<>>
  /\ didInitYears = FALSE
  /\ appFilters = InitialFilters
  /\ loading = FALSE
  /\ updateEnabled = TRUE
  /\ source = <<>>
  /\ allLocations = {}

\* no action on the plot slots yet
AppIdle ==
  /\ app = "welcome"
  /\ lastOp = [op |-> "none", slot |-> 0, before |-> <<>>]
  /\ own = <<Null, Null>>
  /\ clicks = 0

\* the body of the layout effect, run for props p with the callbacks queue pending
RunEffect(p, queue) ==
  LET h == FreshHandle(Handles(queue))
  IN /\ rafQueue' = queue \cup {[id |-> h, el |-> HasRef(p), stale |-> FALSE]}
     /\ raf1' = <<h>>
     /\ raf2' = None

\* Plots renders the panel for the first time
Mount(p) ==
  /\ ~mounted
  /\ mounted' = TRUE
  /\ props' = p
  /\ ready' = EffectReady(FALSE)
  /\ readyBy' = Null
  /\ dom' = Render(p, ready')
  /\ RunEffect(p, rafQueue)
  /\ restarted' = FALSE
  /\ showCounts' = FALSE
  /\ TipFollows
  /\ UNCHANGED <<container, staleSetReady, lastCancel, buildVars, appVars, fnVars, panelVars>>

\* Plots renders the panel again with other props; the layout effect runs again,
\* after its cleanup, when a dependency changed, and its setReady(false) is
\* rendered before the browser paints
PropsChange(p) ==
  /\ mounted
  /\ p # props
  /\ props' = p
  /\ IF GateDeps(p) # GateDeps(props)
     THEN /\ lastCancel' = CancelKind(rafQueue, raf1, raf2)
          /\ ready' = EffectReady(ready)
          /\ readyBy' = IF ready' THEN readyBy ELSE Null
          /\ RunEffect(p, AfterCleanup(rafQueue, raf1, raf2))
          /\ restarted' = TRUE
     ELSE UNCHANGED <<ready, readyBy, rafQueue, raf1, raf2, lastCancel, restarted>>
  /\ dom' = Render(p, ready')
  /\ UNCHANGED showCounts
  /\ TipFollows
  /\ UNCHANGED <<mounted, container, staleSetReady, buildVars, appVars, fnVars, panelVars>>

\* the panel is torn down: the cleanup of the effect runs
Unmount ==
  /\ mounted
  /\ mounted' = FALSE
  /\ props' = Null
  /\ ready' = FALSE
  /\ readyBy' = Null
  /\ dom' = [kind |-> "none", of |-> Null]
  /\ lastCancel' = CancelKind(rafQueue, raf1, raf2)
  /\ rafQueue' = AfterCleanup(rafQueue, raf1, raf2)
  /\ raf1' = None
  /\ raf2' = None
  /\ showCounts' = FALSE
  /\ TipFollows
  /\ UNCHANGED <<container, staleSetReady, restarted, buildVars, appVars, fnVars, panelVars>>

\* the browser lays the page out: the container is attached, detached or resized
Layout(c) ==
  /\ mounted
  /\ c # container
  /\ container' = c
  /\ UNCHANGED <<mounted, props, ready, dom, rafQueue, raf1, raf2,
                 readyBy, staleSetReady, lastCancel, restarted,
                 buildVars, tipVars, appVars, fnVars, panelVars>>

\* the pending callbacks after cb found the container not ready: it is gone and
\* ensureReady is requested again under the handle h
RepollDropped(queue, cb, h) == queue \ {cb}
Repoll(queue, cb, h) == (queue \ {cb}) \cup {[cb EXCEPT !.id = h]}

\* an animation frame runs the pending callback cb: ensureReady
AnimationFrame(cb) ==
  /\ cb \in rafQueue
  /\ IF ObservedReady(cb.el, container)
     THEN \* setReady(true); a panel that is gone ignores it
          /\ rafQueue' = rafQueue \ {cb}
          /\ ready' = mounted
          /\ readyBy' = IF mounted
                        THEN [deps |-> GateDeps(props), stale |-> cb.stale, seen |-> container]
                        ELSE readyBy
          /\ staleSetReady' = (staleSetReady \/ cb.stale)
          /\ dom' = IF mounted THEN Render(props, TRUE) ELSE dom
          /\ UNCHANGED <<raf1, raf2>>
     ELSE \* raf2 = requestAnimationFrame(ensureReady), in the closure of cb
          LET h == FreshHandle((Handles(rafQueue) \ {cb.id}) \cup Held(raf1) \cup Held(raf2))
          IN /\ rafQueue' = Repoll(rafQueue, cb, h)
             /\ raf2' = IF cb.stale THEN raf2 ELSE <<h>>
             /\ UNCHANGED <<raf1, ready, readyBy, staleSetReady, dom>>
  /\ UNCHANGED showCounts
  /\ TipFollows
  /\ UNCHANGED <<mounted, props, container, lastCancel, restarted, buildVars, appVars, fnVars, panelVars>>

GateNext ==
  \/ \E p \in PanelProps : Mount(p)
  \/ \E p \in PanelProps : PropsChange(p)
  \/ Unmount
  \/ \E c \in Containers : Layout(c)
  \/ \E cb \in rafQueue : AnimationFrame(cb)

GateInit ==
  /\ GateIdle
  /\ FnIdle
  /\ AppIdle
  /\ PanelIdle
  /\ rawData = <<>>
  /\ plotConfigs = <<>>
  /\ charts = <<>>
  /\ filtered = <<>>
  /\ axes = <<>>
  /\ exported = Null

SpecGate == GateInit /\ [][GateNext]_vars

(***************************************************************************)
(* The hover tooltip of D3Boxplot and D3Bar                                *)
(***************************************************************************)
\* clientX and clientY of the pointer events
Coords == {<<10, 40>>, <<30, 5>>}

\* the pointer is over box or bar i of the chart instance
PointerOver(i) ==
  /\ lastPointer # Null
  /\ lastPointer.kind \in {"enter", "move"}
  /\ lastPointer.box = i

\* onHover: setHover with the coordinates of the event and the box or bar
onHover(e, i) == [x |-> e[1], y |-> e[2], box |-> i]

\* left and top of the tooltip element, which exists while hover is set
Overlay(h) ==
  IF h = Null THEN Null
  ELSE [left |-> h.x, top |-> IF h.y - 12 > 8 THEN h.y - 12 ELSE 8]

\* the vertical padding of the tooltip element, and the heights the browser can
\* lay it out with: the padding and one to four lines of 14 px text
TipPaddingY == 8
TipHeights == {2 * TipPaddingY + 14 * lines : lines \in {1, 4}}

\* the rectangle the tooltip element of height ht covers: position fixed at
\* left/top, moved by transform translate(-50%, -100%), so that its bottom edge
\* lies at the style's top
OverlayBox(h, ht) ==
  [top |-> Overlay(h).top - ht, bottom |-> Overlay(h).top, centre |-> Overlay(h).left]

\* onMouseEnter of the group of box or bar i
PointerEnter(i, e) ==
  /\ dom.kind = "chart"
  /\ i \in 1..dom.of.labels
  /\ \A j \in 1..dom.of.labels : ~PointerOver(j)
  /\ hover' = onHover(e, i)
  /\ lastPointer' = [kind |-> "enter", x |-> e[1], y |-> e[2], box |-> i]
  /\ UNCHANGED <<showCounts, gateVars, buildVars, appVars, fnVars, panelVars>>

\* onMouseMove
PointerMove(i, e) ==
  /\ dom.kind = "chart"
  /\ PointerOver(i)
  /\ hover' = onHover(e, i)
  /\ lastPointer' = [kind |-> "move", x |-> e[1], y |-> e[2], box |-> i]
  /\ UNCHANGED <<showCounts, gateVars, buildVars, appVars, fnVars, panelVars>>

\* onMouseLeave: hideHover
PointerLeave(i) ==
  /\ dom.kind = "chart"
  /\ PointerOver(i)
  /\ hover' = Null
  /\ lastPointer' = [kind |-> "leave", box |-> i]
  /\ UNCHANGED <<showCounts, gateVars, buildVars, appVars, fnVars, panelVars>>

\* the counts toggle of the panel header; showCounts is part of the chart key
ToggleCounts ==
  /\ mounted /\ HasRef(props)
  /\ showCounts' = ~showCounts
  /\ UNCHANGED gateVars
  /\ TipFollows
  /\ UNCHANGED <<buildVars, appVars, fnVars, panelVars>>

TipNext ==
  \/ \E i \in 1..MaxLabels, e \in Coords : PointerEnter(i, e)
  \/ \E i \in 1..MaxLabels, e \in Coords : PointerMove(i, e)
  \/ \E i \in 1..MaxLabels : PointerLeave(i)
  \/ ToggleCounts

SpecTip == GateInit /\ [][GateNext \/ TipNext]_vars

\* the browser runs a requested animation frame callback in its next frame
SpecGateFair ==
  GateInit /\ [][GateNext]_vars /\ WF_vars(\E cb \in rafQueue : AnimationFrame(cb))

(***************************************************************************)
(* Plots: rendering the two slots, and the download icon                   *)
(***************************************************************************)
BuildInit(data, cfg) ==
  /\ rawData = data
  /\ plotConfigs = <<cfg, Null>>
  /\ charts = <<>>
  /\ filtered = <<>>
  /\ axes = <<>>
  /\ exported = Null
  /\ GateIdle
  /\ FnIdle
  /\ AppIdle
  /\ PanelIdle

\* a render of Plots: the two useMemo calls
PlotsRender ==
  /\ charts = <<>>
  /\ charts' = [s \in 1..2 |-> ChartFor(rawData, plotConfigs[s])]
  /\ filtered' = [s \in 1..2 |-> FilteredFor(rawData, plotConfigs[s])]
  /\ axes' = [s \in 1..2 |-> AxesFor(charts'[s])]
  /\ UNCHANGED <<rawData, plotConfigs, exported, gateVars, tipVars, appVars, fnVars, panelVars>>

\* a click on the download icon of a slot; the icons exist once the data is loaded
\* and the slot has a configuration
HandleDownload(slot) ==
  /\ charts # <<>>
  /\ ~Raised(charts)
  /\ Len(rawData) > 0
  /\ plotConfigs[slot] # Null
  /\ exported' = [slot |-> slot, rows |-> DownloadRows(rawData, plotConfigs[slot])]
  /\ UNCHANGED <<rawData, plotConfigs, charts, filtered, axes, gateVars, tipVars, appVars, fnVars, panelVars>>

BuildNext ==
  \/ PlotsRender
  \/ \E slot \in 1..2 : HandleDownload(slot)

Init == \E data \in SeqsUpTo(FilterRows, MaxRows), cfg \in FilterConfigs : BuildInit(data, cfg)

Spec == Init /\ [][BuildNext]_vars

\* a configuration whose selectedSites is null
WithNullSites(cfg) ==
  [parameter |-> cfg.parameter, selectedSites |-> <<>>, chartType |-> cfg.chartType,
   startYear |-> cfg.startYear, endYear |-> cfg.endYear, trendIndex |-> cfg.trendIndex,
   selectedSitesIsNull |-> TRUE]

\* configurations with a selection, with an empty one, and with selectedSites: null
SiteArrayConfigs ==
  {Config(ct, ss, <<None, None>>, None) :
     ct \in {"trend", "comparison"}, ss \in {<<>>, <<"A">>, <<"B", "A">>}}

InitMalformed ==
  \E data \in SeqsUpTo(FilterRows, MaxRows), cfg \in SiteArrayConfigs :
    \/ BuildInit(data, cfg)
    \/ BuildInit(data, WithNullSites(cfg))

SpecMalformed == InitMalformed /\ [][BuildNext]_vars

InitAgg ==
  \/ \E data \in SeqsUpTo(TrendStatRows, MaxRows) \cup SeqsUpTo(TrendGroupRows, MaxRows) :
       BuildInit(data, Config("trend", <<"A">>, <<None, None>>, <<0>>))
  \/ \E data \in SeqsUpTo(ComparisonRows, MaxRows), ss \in {<<"A", "B">>, <<"B">>} :
       BuildInit(data, Config("comparison", ss, <<None, None>>, None))

SpecAgg == InitAgg /\ [][BuildNext]_vars

InitRound ==
  \E data \in SeqsUpTo(RoundRows, MaxRows), ct \in {"trend", "comparison"} :
    BuildInit(data, Config(ct, <<"A">>, <<None, None>>, None))

SpecRound == InitRound /\ [][BuildNext]_vars

SpecAxis == (InitAgg \/ InitRound) /\ [][BuildNext]_vars

InitSite ==
  \E row \in SiteRows, ss \in SitePicks, ti \in TrendIndexes :
    BuildInit(<<row>>, Config("trend", ss, <<None, None>>, ti))

SpecSite == InitSite /\ [][BuildNext]_vars

(***************************************************************************)
(* quantile called on its own                                              *)
(***************************************************************************)
QuantileValues == {Rat(-3, 2), Rat(1, 1), Rat(2, 1), Rat(3, 1), Rat(4, 1), Rat(5, 1)}

\* the non-empty ascending arrays, as the builder sorts the averages before the call
SortedArrays ==
  {arr \in SeqsUpTo(QuantileValues, MaxQuantileLen) :
     /\ Len(arr) >= 1
     /\ \A i \in 1..(Len(arr) - 1) : RLeq(arr[i], arr[i + 1])}

\* nothing rendered: no rows, no slots, no panel
NoPlots ==
  /\ rawData = <<>>
  /\ plotConfigs = <<>>
  /\ charts = <<>>
  /\ filtered = <<>>
  /\ axes = <<>>
  /\ exported = Null
  /\ GateIdle
  /\ AppIdle
  /\ PanelIdle

InitQuantile ==
  /\ NoPlots
  /\ args \in [arr : SortedArrays, q : {Rat(1, 4), Rat(1, 2), Rat(3, 4)}]
  /\ result = Null

CallQuantile ==
  /\ result = Null
  /\ result' = [value |-> quantile(args.arr, args.q)]
  /\ UNCHANGED <<args, buildVars, gateVars, tipVars, appVars, panelVars>>

SpecQuantile == InitQuantile /\ [][CallQuantile]_vars

(***************************************************************************)
(* The builders called again on the same records and configuration         *)
(***************************************************************************)
\* rows of two sites and two years
TwiceRows ==
  [Parameter : {"P"}, Site : {"A", " B"}, Year : {"2020", "2021"},
   Avg : {"5.0", "7.0"}, Min : {""}, Max : {""}, Count : {"3"}]

\* a builder that writes the trimmed site back into the rows it filters
RecordsAfterBuildNormalised(data, cfg) ==
  [i \in 1..Len(data) |-> [data[i] EXCEPT !.Site = RowSite(data[i])]]

\* the records and the configuration as a call of a builder leaves them: the
\* builders read rawData through filter and forEach and cfg through a destructuring,
\* sort copies, and assign to their own locals only
RecordsAfterBuild(data, cfg) == data
ConfigAfterBuild(data, cfg) == cfg

InitTwice ==
  \E data \in SeqsUpTo(TwiceRows, MaxRows), ct \in {"trend", "comparison"} :
    LET cfg == Config(ct, <<"B", "A">>, <<None, None>>, None)
    IN /\ rawData = data
       /\ plotConfigs = <<cfg, Null>>
       /\ charts = <<>>
       /\ filtered = <<>>
       /\ axes = <<>>
       /\ exported = Null
       /\ GateIdle
       /\ AppIdle
       /\ PanelIdle
       /\ args = [data |-> data, cfg |-> cfg]
       /\ result = <<>>

\* one more call of the builder of the configuration, on the records and the
\* configuration as the calls before left them
CallBuild ==
  /\ Len(result) < 2
  /\ result' = Append(result, [chart |-> ChartFor(args.data, args.cfg),
                               data |-> args.data, cfg |-> args.cfg])
  /\ args' = [data |-> RecordsAfterBuild(args.data, args.cfg),
              cfg |-> ConfigAfterBuild(args.data, args.cfg)]
  /\ UNCHANGED <<buildVars, gateVars, tipVars, appVars, panelVars>>

SpecTwice == InitTwice /\ [][BuildNext \/ CallBuild]_vars

(***************************************************************************)
(* wrapLabel and the label keys of the bars, for two sites of a comparison *)
(***************************************************************************)
MaxWords == 2

\* words of 6 and of 2 characters
NameWords == {<<"a", "a", "a", "a", "a", "a">>, <<"b", "b">>}

\* what stands between two words of a site name: a space, two spaces, a comma
NameSeparators == {<<" ">>, <<" ", " ">>, <<",">>}

RECURSIVE NamesOf(_)
NamesOf(n) ==
  IF n = 1 THEN NameWords
  ELSE {name \o sep \o w : name \in NamesOf(n - 1), sep \in NameSeparators, w \in NameWords}

\* the site names: trimmed, as the keys of groups are
SiteNames == UNION {NamesOf(n) : n \in 1..MaxWords}

InitWrap ==
  /\ NoPlots
  /\ args \in {[sites |-> pair] : pair \in {p \in SiteNames \X SiteNames : p[1] # p[2]}}
  /\ result = Null

\* the labels of a comparison chart of the two sites, and the keys and bands
\* D3BarInner derives from them
CallWrapLabel ==
  /\ result = Null
  /\ LET labels == [i \in 1..2 |-> wrapLabelChars(args.sites[i], MaxChars)]
         labelKeys == [i \in 1..2 |-> LabelKey(labels[i])]
     IN result' = [labels |-> labels, labelKeys |-> labelKeys,
                   band |-> [i \in 1..2 |-> BandOf(labelKeys, i)]]
  /\ UNCHANGED <<args, buildVars, gateVars, tipVars, appVars, panelVars>>

SpecWrap == InitWrap /\ [][CallWrapLabel]_vars

(***************************************************************************)
(* App: the plot slots, their Update buttons, and the site arrows of Plots *)
(***************************************************************************)
\* plotConfigs[0] and plotConfigs[1] as Plots reads them; undefined is as null
CfgAt(configs, slot) == IF slot <= Len(configs) THEN configs[slot] ELSE Null

\* the configuration an Update button of the App with the welcome panel stores
WithTrendIndex(plotFilters) ==
  IF plotFilters.chartType = "trend"
  THEN LET sites == plotFilters.selectedSites
       IN [plotFilters EXCEPT !.trendIndex = <<IF Len(sites) > 0 THEN Len(sites) - 1 ELSE 0>>]
  ELSE plotFilters

\* handleUpdatePlot1 that drops the other slot
handleUpdatePlot1Reset(prev, cfg) == <<cfg, Null>>

\* the updater functions handed to setPlotConfigs
handleUpdatePlot1(prev, cfg) ==
  IF Len(prev) = 0 THEN <<cfg, Null>>
  ELSE LET next == [prev EXCEPT ![1] = cfg]
       IN IF Len(next) = 1 THEN Append(next, Null) ELSE next

\* handleUpdatePlot2 that puts the first configuration into the first slot
handleUpdatePlot2Fill(prev, cfg) ==
  IF Len(prev) = 0 THEN <<cfg>>
  ELSE IF Len(prev) = 1 THEN <<prev[1], cfg>>
  ELSE [prev EXCEPT ![2] = cfg]

handleUpdatePlot2(prev, cfg) ==
  IF Len(prev) = 0 THEN <<Null, cfg>>
  ELSE IF Len(prev) = 1 THEN <<prev[1], cfg>>
  ELSE [prev EXCEPT ![2] = cfg]

\* the same two handlers in the App without the welcome panel (client/src/App.js)
handleUpdatePlot1Early(prev, plotFilters) ==
  IF Len(prev) = 0 THEN <<plotFilters>>
  ELSE [prev EXCEPT ![1] = plotFilters]

handleUpdatePlot2Early(prev, plotFilters) ==
  IF Len(prev) = 0 THEN <<plotFilters>>
  ELSE IF Len(prev) = 1 THEN Append(prev, plotFilters)
  ELSE [prev EXCEPT ![2] = plotFilters]

\* the index the arrows move a configuration with at least one site to
PrevIndex(cfg) ==
  LET count == Len(cfg.selectedSites)
      idx == IF IsFinite(cfg.trendIndex) THEN cfg.trendIndex[1] ELSE count - 1
  IN JsRem(JsRem(idx - 1, count) + count, count)

\* NextIndex without the wrap at the last site
NextIndexUnwrapped(cfg) ==
  LET idx == IF IsFinite(cfg.trendIndex) THEN cfg.trendIndex[1] ELSE Len(cfg.selectedSites) - 1
  IN idx + 1

NextIndex(cfg) ==
  LET count == Len(cfg.selectedSites)
      idx == IF IsFinite(cfg.trendIndex) THEN cfg.trendIndex[1] ELSE count - 1
  IN JsRem(idx + 1, count)

handlePrevSite(prev, slot) ==
  LET cfg == CfgAt(prev, slot)
  IN IF cfg = Null THEN prev
     ELSE IF Len(cfg.selectedSites) = 0 THEN prev
     ELSE [prev EXCEPT ![slot] = [cfg EXCEPT !.trendIndex = <<PrevIndex(cfg)>>]]

handleNextSite(prev, slot) ==
  LET cfg == CfgAt(prev, slot)
  IN IF cfg = Null THEN prev
     ELSE IF Len(cfg.selectedSites) = 0 THEN prev
     ELSE [prev EXCEPT ![slot] = [cfg EXCEPT !.trendIndex = <<NextIndex(cfg)>>]]

\* navFor: the arrows of a slot are shown for a trend of more than one site
HasArrows(cfg) ==
  /\ cfg # Null
  /\ cfg.chartType = "trend"
  /\ Len(cfg.selectedSites) > 1

\* Plots renders again with the configurations configs
Rerender(configs) ==
  /\ plotConfigs' = configs
  /\ charts' = [s \in 1..2 |-> IF loading THEN Null
                                ELSE ChartFor(rawData, CfgAt(plotConfigs', s))]
  /\ filtered' = [s \in 1..2 |-> IF loading THEN <<>>
                                  ELSE FilteredFor(rawData, CfgAt(plotConfigs', s))]
  /\ axes' = [s \in 1..2 |-> AxesFor(charts'[s])]
  /\ UNCHANGED <<rawData, exported, gateVars, tipVars, app, fnVars, panelVars>>

\* the clicks that are counted, and those of them an Update button of the panel takes
MaxClicks == 2
MaxCaptures == 1

\* a click on Update Plot 1 or Update Plot 2 with the filters of the panel
UpdatePlot(slot, plotFilters) ==
  LET cfg == IF app = "welcome" THEN WithTrendIndex(plotFilters) ELSE plotFilters
  IN /\ Rerender(IF app = "welcome"
                 THEN IF slot = 1 THEN handleUpdatePlot1(plotConfigs, cfg)
                      ELSE handleUpdatePlot2(plotConfigs, cfg)
                 ELSE IF slot = 1 THEN handleUpdatePlot1Early(plotConfigs, cfg)
                      ELSE handleUpdatePlot2Early(plotConfigs, cfg))
     /\ lastOp' = [op |-> "update", slot |-> slot, before |-> plotConfigs]
     /\ own' = [own EXCEPT ![slot] = cfg]
     /\ clicks' = IF clicks < MaxClicks THEN clicks + 1 ELSE clicks

\* a click on the left or right arrow of a slot; without setPlotConfigs (the App
\* without the welcome panel passes none) the handlers return at once
SiteArrow(slot, op) ==
  /\ HasArrows(CfgAt(plotConfigs, slot))
  /\ Rerender(IF app = "welcome"
              THEN IF op = "prev" THEN handlePrevSite(plotConfigs, slot)
                   ELSE handleNextSite(plotConfigs, slot)
              ELSE plotConfigs)
  /\ lastOp' = [op |-> op, slot |-> slot, before |-> plotConfigs]
  /\ clicks' = IF clicks < MaxClicks THEN clicks + 1 ELSE clicks
  /\ own' = IF app = "welcome" /\ own[slot] # Null
            THEN [own EXCEPT ![slot] =
                    [own[slot] EXCEPT !.trendIndex =
                       <<IF op = "prev" THEN PrevIndex(own[slot]) ELSE NextIndex(own[slot])>>]]
            ELSE own

PrevSite(slot) == SiteArrow(slot, "prev")

NextSite(slot) == SiteArrow(slot, "next")

\* the filters the panel hands to an Update button; they carry no trendIndex
PlotFilters ==
  {Config("trend", ss, <<None, None>>, None) : ss \in {<<>>, <<"A">>, <<"A", "B">>}}
  \cup {Config("comparison", <<"A", "B">>, <<None, None>>, None)}

\* the loaded rows: one per site
AppData ==
  <<[Parameter |-> "P", Site |-> "A", Year |-> "2020", Avg |-> "5.0",
     Min |-> "", Max |-> "", Count |-> "3"],
    [Parameter |-> "P", Site |-> " B", Year |-> "2021", Avg |-> "7.0",
     Min |-> "", Max |-> "", Count |-> "2"]>>

AppNext ==
  \/ \E slot \in 1..2, plotFilters \in PlotFilters : UpdatePlot(slot, plotFilters)
  \/ \E slot \in 1..2 : PrevSite(slot)
  \/ \E slot \in 1..2 : NextSite(slot)

\* Plots with no configuration yet, under either App
AppInit ==
  /\ rawData = AppData
  /\ plotConfigs = <<>>
  /\ charts = <<Null, Null>>
  /\ filtered = <<(<<>>), (<<>>)>>
  /\ axes = <<AxesFor(Null), AxesFor(Null)>>
  /\ exported = Null
  /\ GateIdle
  /\ FnIdle
  /\ app \in {"welcome", "early"}
  /\ lastOp = [op |-> "none", slot |-> 0, before |-> <<>>]
  /\ own = <<Null, Null>>
  /\ clicks = 0
  /\ PanelIdle

SpecApp == AppInit /\ [][AppNext]_vars

\* the same App with filters of three sites, for the arrows
ArrowFilters ==
  {Config("trend", ss, <<None, None>>, None) : ss \in {<<>>, <<"A", "B", "C">>}}

ArrowNext ==
  \/ \E slot \in 1..2, plotFilters \in ArrowFilters : UpdatePlot(slot, plotFilters)
  \/ \E slot \in 1..2 : PrevSite(slot)
  \/ \E slot \in 1..2 : NextSite(slot)

SpecArrows == AppInit /\ [][ArrowNext]_vars

(***************************************************************************)
(* Properties                                                              *)
(***************************************************************************)
Rendered(slot) == charts # <<>> /\ charts[slot] # Null
IsTrend(slot) == Rendered(slot) /\ charts[slot].type = "boxplot"
IsComparison(slot) == Rendered(slot) /\ charts[slot].type = "d3bar"

FiniteField(row, field) == IsFinite(ParseFloat(row[field]))
RowsOfYear(rows, y) == SelectSeq(rows, LAMBDA r : r.Year = y)
RowsOfSite(rows, s) == SelectSeq(rows, LAMBDA r : RowSite(r) = s)

\* the years of a trend chart that have a finite average, in label order
BoxedYears(slot) ==
  SelectSeq(charts[slot].labels,
            LAMBDA y : \E i \in 1..Len(filtered[slot]) :
                         filtered[slot][i].Year = y /\ FiniteField(filtered[slot][i], "Avg"))

\* C1: the rows handleDownload exports for a slot are exactly the rows the chart
\* builder of that slot filtered, for trend and comparison configurations alike
C1_DownloadMatchesChart ==
  exported # Null => exported.rows = filtered[exported.slot]

BoxOrdered(b) ==
  /\ RLeq(b.min, b.q1) /\ RLeq(b.q1, b.median)
  /\ RLeq(b.median, b.q3) /\ RLeq(b.q3, b.max)

AllFinite(row) ==
  FiniteField(row, "Avg") /\ FiniteField(row, "Min") /\ FiniteField(row, "Max")

\* C2 as stated: every box of a trend chart built from records whose Avg, Min and
\* Max are all finite has min <= q1 <= median <= q3 <= max
C2_BoxesOrdered ==
  (IsTrend(1) /\ \A i \in 1..Len(rawData) : AllFinite(rawData[i]))
    => \A i \in 1..Len(charts[1].data) : BoxOrdered(charts[1].data[i])

MinAvgMax(row) ==
  /\ AllFinite(row)
  /\ RLeq(ParseFloat(row.Min), ParseFloat(row.Avg))
  /\ RLeq(ParseFloat(row.Avg), ParseFloat(row.Max))

\* C2 amended: every box of a trend chart built from records whose Avg, Min and Max
\* are finite with Min <= Avg <= Max has min <= q1 <= median <= q3 <= max, and
\* computeBoxStats of the averages of any charted year is ordered in the same way
C2_BoxesOrderedOfOrderedRecords ==
  IsTrend(1) =>
    /\ (\A i \in 1..Len(rawData) : MinAvgMax(rawData[i]))
         => \A i \in 1..Len(charts[1].data) : BoxOrdered(charts[1].data[i])
    /\ \A i \in 1..Len(BoxedYears(1)) :
         BoxOrdered(computeBoxStats(GroupVals(filtered[1], "Avg", BoxedYears(1)[i])))

C2_Witness ==
  /\ IsTrend(1)
  /\ \A i \in 1..Len(rawData) : MinAvgMax(rawData[i])
  /\ Len(charts[1].data) = 1
  /\ LET b == charts[1].data[1]
     IN /\ RLess(b.min, b.q1) /\ RLess(b.q1, b.median)
        /\ RLess(b.median, b.q3) /\ RLess(b.q3, b.max)

\* the key of the group a filtered row falls into, and the label of that group
GroupKey(slot, row) == IF charts[slot].type = "boxplot" THEN row.Year ELSE RowSite(row)
GroupLabel(slot, key) == IF charts[slot].type = "boxplot" THEN key ELSE wrapLabel(key)

\* C3: a year group (trend) or site group (comparison) whose filtered records hold
\* no finite average has no entry in the chart model, so no label
C3_NoAverageNoEntry ==
  Rendered(1) =>
    \A i \in 1..Len(filtered[1]) :
      LET key == GroupKey(1, filtered[1][i])
      IN (\A j \in 1..Len(filtered[1]) :
            GroupKey(1, filtered[1][j]) = key => ~FiniteField(filtered[1][j], "Avg"))
         => ~Includes(charts[1].labels, GroupLabel(1, key))

\* C4: labels, series data and counts of a chart model have the same length, and
\* entry i of the data and of the counts is the one computed for the group of label i
C4_LabelsDataCountsAligned ==
  Rendered(1) =>
    /\ Len(charts[1].labels) = Len(charts[1].data)
    /\ Len(charts[1].labels) = Len(charts[1].customCounts)
    /\ IsTrend(1) =>
         \A i \in 1..Len(charts[1].labels) :
           /\ charts[1].data[i] = TrendBox(filtered[1], charts[1].labels[i])
           /\ charts[1].customCounts[i] = CountByYear(filtered[1], charts[1].labels[i])
    /\ IsComparison(1) =>
         \A i \in 1..Len(charts[1].labels) :
           charts[1].customCounts[i] = CountBySite(filtered[1], charts[1].labels[i][1])

\* the site of the configuration that position idx of the selection names
\* (idx wrapped into 0..n-1), the last one when no index is given
ClaimedSite(cfg) ==
  LET n == Len(cfg.selectedSites)
  IN IF cfg.trendIndex = None THEN cfg.selectedSites[n]
     ELSE cfg.selectedSites[(cfg.trendIndex[1] % n) + 1]

\* the record filter as section 4.1 states it, with the site rule of the chart type
ClaimedMatch(row, cfg, chart) ==
  /\ Trim(row.Parameter) = cfg.parameter
  /\ IF cfg.chartType = "comparison"
     THEN Trim(row.Site) \in {cfg.selectedSites[k] : k \in 1..Len(cfg.selectedSites)}
     ELSE Len(cfg.selectedSites) > 0 /\ Trim(row.Site) = chart.site
  /\ ParseInt(row.Year) # NaN
  /\ (cfg.startYear = None \/ ParseInt(row.Year)[1] >= cfg.startYear[1])
  /\ (cfg.endYear = None \/ ParseInt(row.Year)[1] <= cfg.endYear[1])

\* C5: the rows a builder aggregates are exactly the rows of the data, in order,
\* whose trimmed Parameter is the configured one, whose trimmed Site is selected
\* (comparison) or is the displayed trend site, and whose Year parses to an
\* integer inside the configured year range
C5_FilteredIffMatches ==
  Rendered(1) =>
    filtered[1] = SelectSeq(rawData, LAMBDA row : ClaimedMatch(row, plotConfigs[1], charts[1]))

C5_Witness ==
  /\ IsTrend(1)
  /\ Len(plotConfigs[1].selectedSites) = 2
  /\ plotConfigs[1].startYear # None
  /\ Len(rawData) = 2
  /\ Len(filtered[1]) = 1
  /\ filtered[1][1] = rawData[2]
  /\ rawData[1].Parameter = "P " /\ rawData[1].Year # "n/a"

\* C6: a trend chart of n >= 1 selected sites displays selectedSites[trendIndex mod n],
\* wrapped into 0..n-1 for negative and overflowing indexes, and the last selected
\* site when there is no trendIndex
C6_TrendSiteWraps ==
  (IsTrend(1) /\ Len(plotConfigs[1].selectedSites) >= 1)
    => charts[1].site = ClaimedSite(plotConfigs[1])

C6_Witness ==
  /\ IsTrend(1)
  /\ plotConfigs[1].selectedSites = <<"A", "B", "C">>
  /\ plotConfigs[1].trendIndex = <<-1>>
  /\ charts[1].site = "C"
  /\ Len(filtered[1]) = 1

ClaimedCount(rows) ==
  SumInt([i \in 1..Len(rows) |->
            IF IsFinite(ParseInt(rows[i].Count)) THEN ParseInt(rows[i].Count)[1] ELSE 0])

\* C7: the count of every group of a chart model is the sum of Count over all the
\* filtered records of that group, a non-finite Count adding 0, in both modes
C7_CountIsSumOverGroup ==
  /\ IsTrend(1) =>
       \A i \in 1..Len(charts[1].customCounts) :
         i <= Len(BoxedYears(1)) =>
           charts[1].customCounts[i] = ClaimedCount(RowsOfYear(filtered[1], BoxedYears(1)[i]))
  /\ IsComparison(1) =>
       \A i \in 1..Len(charts[1].customCounts) :
         charts[1].customCounts[i] = ClaimedCount(RowsOfSite(filtered[1], charts[1].labels[i][1]))

\* the finite rounded values of a field over the filtered rows of a year
YearValues(rows, field) ==
  LET sel == SelectSeq(rows, LAMBDA r : FiniteField(r, field))
  IN [i \in 1..Len(sel) |-> round3(ParseFloat(sel[i][field]))]
MeanOf(values) == RDivInt(Sum(values), Len(values))

\* C8: every box of a trend chart has a finite min and max; a year without a finite
\* declared Min (Max) has the rounded mean of its averages as min (max), and a year
\* of one record without declared Min and Max has all five statistics equal to the
\* rounded average of that record
C8_WhiskersFinite ==
  IsTrend(1) =>
    \A i \in 1..Len(charts[1].data) :
      i <= Len(BoxedYears(1)) =>
        LET b == charts[1].data[i]
            rows == RowsOfYear(filtered[1], BoxedYears(1)[i])
            mean == round3(MeanOf(YearValues(rows, "Avg")))
        IN /\ IsFinite(b.min) /\ IsFinite(b.max)
           /\ YearValues(rows, "Min") = <<>> => b.min = mean
           /\ YearValues(rows, "Max") = <<>> => b.max = mean
           /\ (Len(rows) = 1 /\ YearValues(rows, "Min") = <<>> /\ YearValues(rows, "Max") = <<>>)
                => LET a == round3(ParseFloat(rows[1].Avg))
                   IN b.min = a /\ b.q1 = a /\ b.median = a /\ b.q3 = a /\ b.max = a

C8_Witness ==
  /\ IsTrend(1)
  /\ Len(charts[1].data) = 1
  /\ Len(filtered[1]) = 2
  /\ YearValues(filtered[1], "Min") = <<>>
  /\ YearValues(filtered[1], "Max") = <<>>
  /\ charts[1].data[1].min = Rat(11, 2)
  /\ charts[1].data[1].max = Rat(11, 2)
  /\ RLess(charts[1].data[1].q1, charts[1].data[1].min)

C10_NoStaleCallback ==
  /\ ~staleSetReady
  /\ \A cb \in rafQueue : ~cb.stale
  /\ ~mounted => rafQueue = {}

C10_Witness ==
  /\ lastCancel = "repoll"
  /\ ~mounted
  /\ restarted
  /\ rafQueue = {}

\* the container of the panel is in the document with a width and height above 0
Attached ==
  /\ mounted /\ HasRef(props)
  /\ container.inDoc /\ container.width > 0 /\ container.height > 0

AllGateDeps == {GateDeps(p) : p \in PanelProps}

\* C11: a panel that is mounted and not ready renders no error and has a poll of
\* its current gate run pending, and a panel whose container is attached with a
\* width and height above 0 becomes ready unless it is unmounted, its gate
\* dependencies change or the container is detached or emptied before
C11_ZeroSizeRetried ==
  /\ []((mounted /\ ~ready) =>
         /\ dom.kind \in {"prompt", "nodata", "blank"}
         /\ \E cb \in rafQueue : ~cb.stale /\ cb.el = HasRef(props))
  /\ \A d \in AllGateDeps :
       (Attached /\ GateDeps(props) = d) ~> (ready \/ ~Attached \/ GateDeps(props) # d)

\* ready after at least one poll that found the container not ready
C11_Witness ==
  /\ mounted /\ ready /\ Attached
  /\ raf2 # None
  /\ readyBy # Null /\ ~readyBy.stale

\* the slot that an action on slot s leaves alone
OtherSlot(s) == 3 - s
SlotFrame(s) ==
  /\ CfgAt(plotConfigs, s) = CfgAt(lastOp.before, s)
  /\ charts[s] = ChartFor(rawData, CfgAt(lastOp.before, s))

\* a configuration without its trendIndex
SansIndex(cfg) == IF cfg = Null THEN Null ELSE [cfg EXCEPT !.trendIndex = None]

\* the frame of the single actions: Update Plot 1 leaves the configuration and chart
\* of slot 2 as they were, Update Plot 2 leaves those of an existing slot 1, and an
\* arrow of a slot leaves the other slot and changes at most the trendIndex of its own
ActionsKeepOtherSlot ==
  /\ (lastOp.op = "update" /\ lastOp.slot = 1) => SlotFrame(2)
  /\ (lastOp.op = "update" /\ lastOp.slot = 2 /\ CfgAt(lastOp.before, 1) # Null) => SlotFrame(1)
  /\ lastOp.op \in {"prev", "next"} =>
       /\ SlotFrame(OtherSlot(lastOp.slot))
       /\ SansIndex(CfgAt(plotConfigs, lastOp.slot)) = SansIndex(CfgAt(lastOp.before, lastOp.slot))

\* every slot holds what the actions on that slot alone produce
SlotsHoldOwn == \A s \in 1..2 : CfgAt(plotConfigs, s) = own[s]

\* C12 as stated: an action on one slot leaves the configuration and chart of the
\* other slot unchanged, and after any interleaving of Update Plot 1, Update Plot 2
\* and the arrows every slot holds the result of its own actions only
C12_SlotsIndependent ==
  lastOp.op # "none" => (ActionsKeepOtherSlot /\ SlotsHoldOwn)

\* C12 amended: the single actions leave the other slot unchanged under both Apps,
\* and under the App with the welcome panel every slot holds the result of its own
\* actions only
C12_SlotsIndependentWithWelcome ==
  lastOp.op # "none" =>
    /\ ActionsKeepOtherSlot
    /\ app = "welcome" => SlotsHoldOwn

\* both slots were updated and moved by their arrows, slot 1 last
C12_Witness ==
  /\ app = "welcome"
  /\ lastOp.op = "next" /\ lastOp.slot = 1
  /\ CfgAt(plotConfigs, 1) # Null /\ CfgAt(plotConfigs, 2) # Null
  /\ plotConfigs[1].trendIndex = <<0>> /\ CfgAt(lastOp.before, 1).trendIndex = <<1>>
  /\ HasArrows(plotConfigs[2]) /\ plotConfigs[2].trendIndex = <<0>>
  /\ charts[1].site = "A" /\ charts[2].site = "A"

\* v rounded to 3 decimals, a tie going away from zero
HalfAwayFromZero(v) ==
  LET scaled == RMul(v, Rat(Scale, 1))
      mag == MathFloor(RAdd(Rat(Abs(scaled[1]), scaled[2]), Rat(1, 2)))
  IN Rat(IF scaled[1] < 0 THEN 0 - mag ELSE mag, Scale)

\* the finite values of a field over rows, each rounded half away from zero
HalfAwayValues(rows, field) ==
  LET sel == SelectSeq(rows, LAMBDA r : FiniteField(r, field))
  IN [i \in 1..Len(sel) |-> HalfAwayFromZero(ParseFloat(sel[i][field]))]

\* C13: every number of a chart model (the quantiles and the mean of the averages,
\* the declared minimum and maximum, the mean of a site) is rounded to 3 decimals
\* with a tie going away from zero, for negative values as for positive ones
C13_RoundsHalfAwayFromZero ==
  /\ IsTrend(1) =>
       \A i \in 1..Len(charts[1].data) :
         i <= Len(BoxedYears(1)) =>
           LET b == charts[1].data[i]
               rows == RowsOfYear(filtered[1], BoxedYears(1)[i])
               avgs == SortNumbers(HalfAwayValues(rows, "Avg"))
               mins == HalfAwayValues(rows, "Min")
               maxs == HalfAwayValues(rows, "Max")
               mean == HalfAwayFromZero(MeanOf(avgs))
           IN /\ b.q1 = HalfAwayFromZero(quantile(avgs, Rat(1, 4)))
              /\ b.median = HalfAwayFromZero(quantile(avgs, Rat(1, 2)))
              /\ b.q3 = HalfAwayFromZero(quantile(avgs, Rat(3, 4)))
              /\ b.mean = mean
              /\ b.min = IF Len(mins) > 0 THEN MinOf(mins) ELSE mean
              /\ b.max = IF Len(maxs) > 0 THEN MaxOf(maxs) ELSE mean
  /\ IsComparison(1) =>
       \A i \in 1..Len(charts[1].data) :
         charts[1].data[i] =
           HalfAwayFromZero(MeanOf(HalfAwayValues(
             RowsOfSite(filtered[1], charts[1].labels[i][1]), "Avg")))

\* the data extent of the chart of a slot, and its span
HasRange(slot) == Rendered(slot) /\ axes[slot].options.range # Null
DataSpan(slot) == RSub(axes[slot].options.range.max, axes[slot].options.range.min)

\* max(span * 0.16, |dataMax| * 0.02, 0.1)
ClaimedPad(range) ==
  MaxOf(<<RMul(RSub(range.max, range.min), Rat(16, 100)),
          RMul(MathAbs(range.max), Rat(2, 100)),
          Rat(1, 10)>>)

\* C14: the padding the range planner uses for a chart with a data extent is
\* max(span * 0.16, |dataMax| * 0.02, 0.1), in makeOptions and in the panel
C14_PaddingIsMaxOfThree ==
  HasRange(1) =>
    /\ axes[1].options.pad = ClaimedPad(axes[1].options.range)
    /\ axes[1].yDomain # Null => axes[1].yDomain.pad = ClaimedPad(axes[1].options.range)

\* C15: for a chart whose data span is above 0, every axis domain planned for it has
\* its maximum above its minimum: yMin and yMax of makeOptions, the bounds it hands
\* to the scale, and the yDomain of the panel
C15_DomainNotEmpty ==
  (HasRange(1) /\ RLess(Rat(0, 1), DataSpan(1))) =>
    LET o == axes[1].options
        d == axes[1].yDomain
    IN /\ o.yMin[1] < o.yMax[1]
       /\ IsTrend(1) => o.min[1] < o.max[1]
       /\ IsComparison(1) => o.suggestedMin[1] < o.suggestedMax[1]
       /\ d # Null /\ RLess(d.min, d.max)

\* a box plot of span 1/2 whose padded ends lie within one unit
C15_Witness ==
  /\ IsTrend(1) /\ HasRange(1)
  /\ axes[1].options.range = [min |-> Rat(11, 2), max |-> Rat(6, 1)]
  /\ axes[1].options.yMin = <<5>> /\ axes[1].options.yMax = <<7>>
  /\ axes[1].yDomain # Null

Interpolated(arr, q) ==
  LET pos == RMul(Rat(Len(arr) - 1, 1), q)
      below == MathFloor(pos)
      frac == RSub(pos, Rat(below, 1))
  IN IF frac = Rat(0, 1) THEN arr[below + 1]
     ELSE RAdd(RMul(RSub(Rat(1, 1), frac), arr[below + 1]), RMul(frac, arr[below + 2]))

OneToFive == <<Rat(1, 1), Rat(2, 1), Rat(3, 1), Rat(4, 1), Rat(5, 1)>>

\* C17: quantile of a non-empty ascending array, for q = 1/4, 1/2 and 3/4, is the
\* linear interpolation at position (n - 1) * q and the element itself when the
\* position is an index: [1,2,3,4,5] gives 2, 3 and 4, [1,2,3,4] has median 2.5,
\* and [x] gives x
C17_QuantileInterpolates ==
  result # Null =>
    /\ result.value = Interpolated(args.arr, args.q)
    /\ (args.arr = OneToFive /\ args.q = Rat(1, 4)) => result.value = Rat(2, 1)
    /\ (args.arr = OneToFive /\ args.q = Rat(1, 2)) => result.value = Rat(3, 1)
    /\ (args.arr = OneToFive /\ args.q = Rat(3, 4)) => result.value = Rat(4, 1)
    /\ (args.arr = SubSeq(OneToFive, 1, 4) /\ args.q = Rat(1, 2)) => result.value = Rat(5, 2)
    /\ Len(args.arr) = 1 => result.value = args.arr[1]

\* the median of [1,2,3,4] lies between two elements
C17_Witness ==
  /\ result # Null
  /\ args.arr = SubSeq(OneToFive, 1, 4) /\ args.q = Rat(1, 2)
  /\ result.value = Rat(5, 2)

\* the selected sites that have a matching record with a finite average
SitesWithAverage(slot) ==
  {s \in {plotConfigs[slot].selectedSites[k] : k \in 1..Len(plotConfigs[slot].selectedSites)} :
     \E i \in 1..Len(filtered[slot]) :
       RowSite(filtered[slot][i]) = s /\ FiniteField(filtered[slot][i], "Avg")}

\* C18: a comparison chart has exactly one bar for every selected site that has a
\* matching record with a finite average and no other bar, and the value of a bar
\* is the mean of the (rounded) finite averages of the matching records of its site,
\* rounded to 3 decimals; averages 5.0 and 7.0 with counts 3 and 2 give one bar of
\* value 6 and count 5
C18_OneBarPerSiteWithMean ==
  IsComparison(1) =>
    LET c == charts[1]
    IN /\ {c.labels[i] : i \in 1..Len(c.labels)} = {wrapLabel(s) : s \in SitesWithAverage(1)}
       /\ Len(c.labels) = Cardinality(SitesWithAverage(1))
       /\ Len(c.data) = Len(c.labels)
       /\ \A i \in 1..Len(c.labels) :
            c.data[i] = round3(MeanOf(YearValues(RowsOfSite(filtered[1], c.labels[i][1]), "Avg")))
       /\ (/\ Len(filtered[1]) = 2
           /\ \A i \in 1..2 : RowSite(filtered[1][i]) = "A"
           /\ filtered[1][1].Avg = "5.0" /\ filtered[1][1].Count = "3"
           /\ filtered[1][2].Avg = "7.0" /\ filtered[1][2].Count = "2")
            => (c.labels = <<wrapLabel("A")>> /\ c.data = <<Rat(6, 1)>> /\ c.customCounts = <<5>>)

\* scenario B: site A with averages 5.0 and 7.0, counts 3 and 2
C18_Witness ==
  /\ IsComparison(1)
  /\ Len(filtered[1]) = 2
  /\ filtered[1][1].Avg = "5.0" /\ filtered[1][1].Count = "3"
  /\ filtered[1][2].Avg = "7.0" /\ filtered[1][2].Count = "2"
  /\ charts[1].labels = <<wrapLabel("A")>>
  /\ charts[1].data = <<Rat(6, 1)>>
  /\ charts[1].customCounts = <<5>>

C20_TooltipFollowsPointer ==
  /\ (hover # Null) <=> (lastPointer # Null /\ lastPointer.kind \in {"enter", "move"})
  /\ hover # Null =>
       /\ hover.x = lastPointer.x /\ hover.y = lastPointer.y /\ hover.box = lastPointer.box
       /\ Overlay(hover).left = lastPointer.x
       /\ Overlay(hover).top = IF lastPointer.y < 20 THEN 8 ELSE lastPointer.y - 12
  /\ (lastPointer # Null /\ lastPointer.kind \in {"leave", "ended"}) => Overlay(hover) = Null
  /\ dom.kind # "chart" => Overlay(hover) = Null

\* the tooltip follows a move after the enter
C20_Witness ==
  /\ dom.kind = "chart"
  /\ lastPointer # Null /\ lastPointer.kind = "move"
  /\ hover = [x |-> 30, y |-> 5, box |-> 1]
  /\ Overlay(hover) = [left |-> 30, top |-> 8]

\* a new chart instance (the counts were toggled) after one that ended hovered
C20_WitnessRekeyed ==
  /\ dom.kind = "chart" /\ showCounts
  /\ lastPointer # Null /\ lastPointer.kind = "ended" /\ lastPointer.was = "move"
  /\ hover = Null

\* C21: for every pointer position the top of the tooltip overlay is at least 8
\* units below the top edge of the viewport
C21_OverlayTopClamped ==
  hover # Null => \A ht \in TipHeights : OverlayBox(hover, ht).top >= 8

\* a chart model without labels, series and counts
IsEmptyModel(c) ==
  /\ c # Thrown
  /\ c.labels = <<>> /\ c.data = <<>> /\ c.customCounts = <<>>

\* C22: a configuration with selectedSites: null, for which building the chart
\* raises, gets an empty chart model from the render of Plots, and nothing raised by
\* a builder leaves the render
C22_BuildErrorsCaught ==
  (charts # <<>> /\ SitesIsNull(plotConfigs[1])) =>
    (IsEmptyModel(charts[1]) /\ ~Raised(charts))

\* the panel of slot 1 shows the message for a chart without data, ready or not
ShowsNoData ==
  \A rdy \in BOOLEAN : SlotView(rawData, plotConfigs[1], charts[1], rdy).kind = "nodata"

ShortWords(name) ==
  \A w \in {SplitSpaces(name)[k] : k \in 1..Len(SplitSpaces(name))} : Len(w) <= MaxChars

\* C24: the lines of a wrapped site name joined by single spaces give the site name
\* back, every line of a name whose words have at most 12 characters has at most 12
\* characters, and two distinct sites never get the same label key
C24_WrapKeepsIdentity ==
  result # Null =>
    /\ \A i \in 1..2 :
         /\ LabelText(result.labels[i]) = args.sites[i]
         /\ ShortWords(args.sites[i]) =>
              \A k \in 1..Len(result.labels[i]) : Len(result.labels[i][k]) <= MaxChars
    /\ result.labelKeys[1] # result.labelKeys[2]
    /\ result.band[1] # result.band[2]

C26_FilterIdempotent ==
  Rendered(1) => FilteredFor(filtered[1], plotConfigs[1]) = filtered[1]

\* a trend of two sites and a year range that keeps the second of two rows
C26_Witness ==
  /\ IsTrend(1)
  /\ Len(plotConfigs[1].selectedSites) = 2 /\ plotConfigs[1].startYear # None
  /\ Len(rawData) = 2 /\ filtered[1] = <<rawData[2]>>
  /\ RowParam(rawData[1]) = plotConfigs[1].parameter
  /\ FilteredFor(filtered[1], plotConfigs[1]) = <<rawData[2]>>

\* C27: under the App with the welcome panel, after the first Update Plot and any
\* further Update Plot 1, Update Plot 2 and arrow clicks, plotConfigs has exactly
\* two slots; Update Plot 1 writes slot 1 only and Update Plot 2 slot 2 only, so
\* Update Plot 2 as the first action leaves slot 1 null
C27_TwoSlots ==
  (app = "welcome" /\ lastOp.op # "none") =>
    /\ Len(plotConfigs) = 2
    /\ lastOp.op = "update" =>
         /\ plotConfigs[lastOp.slot] = own[lastOp.slot]
         /\ plotConfigs[OtherSlot(lastOp.slot)] = CfgAt(lastOp.before, OtherSlot(lastOp.slot))
    /\ (lastOp.op = "update" /\ lastOp.slot = 2 /\ lastOp.before = <<>>) =>
         (plotConfigs[1] = Null /\ plotConfigs[2] # Null)

\* Update Plot 2 pressed first
C27_Witness ==
  /\ app = "welcome"
  /\ lastOp = [op |-> "update", slot |-> 2, before |-> <<>>]
  /\ Len(plotConfigs) = 2
  /\ plotConfigs[1] = Null
  /\ plotConfigs[2] # Null /\ plotConfigs[2].trendIndex = <<1>>
  /\ charts[1] = Null /\ charts[2].site = "B"

\* a slot that holds a trend configuration with at least one site
TrendSlot(s) ==
  /\ CfgAt(plotConfigs, s) # Null
  /\ plotConfigs[s].chartType = "trend"
  /\ Len(plotConfigs[s].selectedSites) >= 1

\* the site a configuration list displays in a slot
DisplayedSite(configs, s) == TrendSite(CfgAt(configs, s))

\* k clicks on the right arrow of slot s
RECURSIVE NextTimes(_, _, _)
NextTimes(configs, s, k) ==
  IF k = 0 THEN configs ELSE NextTimes(handleNextSite(configs, s), s, k - 1)

\* C28: under the App with the welcome panel a trend slot with n >= 1 sites displays
\* the last site right after its Update Plot; after any arrow clicks trendIndex is
\* an integer in 0..n-1 and the displayed site is selectedSites[trendIndex]; next
\* then prev and prev then next restore the displayed site, and n times next
\* returns to it; the arrow handlers change nothing on a slot that is empty or has
\* no sites
C28_ArrowsCycle ==
  (app = "welcome" /\ lastOp.op # "none") =>
    \A s \in 1..2 :
      /\ TrendSlot(s) =>
           LET cfg == plotConfigs[s]
               n == Len(cfg.selectedSites)
           IN /\ (lastOp.op = "update" /\ lastOp.slot = s) => charts[s].site = cfg.selectedSites[n]
              /\ IsFinite(cfg.trendIndex) /\ cfg.trendIndex[1] \in 0..(n - 1)
              /\ charts[s].site = cfg.selectedSites[cfg.trendIndex[1] + 1]
              /\ DisplayedSite(handlePrevSite(handleNextSite(plotConfigs, s), s), s) = charts[s].site
              /\ DisplayedSite(handleNextSite(handlePrevSite(plotConfigs, s), s), s) = charts[s].site
              /\ DisplayedSite(NextTimes(plotConfigs, s, n), s) = charts[s].site
              /\ (lastOp.op = "next" /\ lastOp.slot = s) =>
                   DisplayedSite(handlePrevSite(plotConfigs, s), s) = DisplayedSite(lastOp.before, s)
              /\ (lastOp.op = "prev" /\ lastOp.slot = s) =>
                   DisplayedSite(handleNextSite(plotConfigs, s), s) = DisplayedSite(lastOp.before, s)
      /\ (CfgAt(plotConfigs, s) = Null \/ Len(plotConfigs[s].selectedSites) = 0) =>
           /\ handlePrevSite(plotConfigs, s) = plotConfigs
           /\ handleNextSite(plotConfigs, s) = plotConfigs

\* the left arrow of slot 2 pressed on the first of three sites: the last one
\* shows, while slot 1 holds a trend without sites
C28_Witness ==
  /\ app = "welcome"
  /\ lastOp.op = "prev" /\ lastOp.slot = 2
  /\ CfgAt(lastOp.before, 2).trendIndex = <<0>>
  /\ plotConfigs[2].selectedSites = <<"A", "B", "C">> /\ plotConfigs[2].trendIndex = <<2>>
  /\ charts[2].site = "C"
  /\ plotConfigs[1] # Null /\ plotConfigs[1].selectedSites = <<>>

(***************************************************************************)
(* FiltersPanel inside the App with the welcome panel                      *)
(***************************************************************************)
\* the CSV of the panel and the markers of the map: rows of two sites in one year
\* under markers of both sites, rows of one site in two years under a map without
\* markers, and a CSV without rows
TwoSiteRows ==
  <<[Parameter |-> "P", Site |-> "A", Year |-> "2020", Avg |-> "5.0",
     Min |-> "", Max |-> "", Count |-> "3"],
    [Parameter |-> "P", Site |-> "B", Year |-> "2020", Avg |-> "7.0",
     Min |-> "", Max |-> "", Count |-> "2"]>>

TwoYearRows ==
  <<[Parameter |-> "P", Site |-> "A", Year |-> "2020", Avg |-> "5.0",
     Min |-> "", Max |-> "", Count |-> "3"],
    [Parameter |-> "P", Site |-> "A", Year |-> "2021", Avg |-> "7.0",
     Min |-> "", Max |-> "", Count |-> "2"]>>

Fetched ==
  {[source |-> TwoSiteRows, allLocations |-> {"A", "B"}],
   [source |-> TwoYearRows, allLocations |-> {}],
   [source |-> <<>>, allLocations |-> {"A"}]}

RECURSIVE Ascending(_)
Ascending(S) ==
  IF S = {} THEN <<>>
  ELSE LET m == CHOOSE x \in S : \A y \in S : x <= y
       IN <<m>> \o Ascending(S \ {m})

\* the distinct finite years of the rows, ascending
uniqueYears(dataRows) ==
  Ascending({ParseInt(dataRows[i].Year)[1] :
               i \in {j \in 1..Len(dataRows) : IsFinite(ParseInt(dataRows[j].Year))}})

\* the options of the site list and of the parameter select
uniqueSites(dataRows) == {dataRows[i].Site : i \in 1..Len(dataRows)} \ {""}
uniqueParameters(dataRows) == {dataRows[i].Parameter : i \in 1..Len(dataRows)} \ {""}

\* the value attribute of the option of a year
OptionValue(y) ==
  CASE y = 2020 -> "2020"
    [] y = 2021 -> "2021"

\* {...prev, ...partialOrFull}
Merge(prev, partialOrFull) ==
  [f \in DOMAIN prev |-> IF f \in DOMAIN partialOrFull THEN partialOrFull[f] ELSE prev[f]]

\* onFiltersChange that writes the update into the captured configurations too
onFiltersChangeLive(state, partialOrFull) ==
  [filters |-> Merge(state.filters, partialOrFull),
   plotConfigs |-> [s \in 1..Len(state.plotConfigs) |->
                      IF state.plotConfigs[s] = Null THEN Null
                      ELSE Merge(state.plotConfigs[s], partialOrFull)]]

\* onFiltersChange on the state of the App: setFilters and nothing else
onFiltersChange(state, partialOrFull) ==
  [filters |-> Merge(state.filters, partialOrFull),
   plotConfigs |-> state.plotConfigs]

\* toggleOption of the site list, and handleMarkerClick: the site leaves the
\* selection or goes to its end
ToggleSite(selected, opt) ==
  IF Includes(selected, opt) THEN SelectSeq(selected, LAMBDA s : s # opt)
  ELSE Append(selected, opt)

\* handleEndYearChange that takes the chosen end year as it is
handleEndYearChangeUnclamped(prev, value) ==
  LET rawEnd == ParseInt(value)
  IN IF ~IsFinite(rawEnd) THEN Null
     ELSE [filters |-> [prev EXCEPT !.endYear = rawEnd],
           update |-> [startYear |-> IF prev.startYear # None THEN prev.startYear ELSE rawEnd,
                       endYear |-> rawEnd]]

\* the year handlers: the local filters they set and the update they send, or Null
\* when they return at once
handleStartYearChange(prev, value) ==
  LET newStart == ParseInt(value)
      currentEnd == prev.endYear
      nextEnd == IF currentEnd # None /\ newStart[1] <= currentEnd[1] THEN currentEnd
                 ELSE newStart
  IN IF ~IsFinite(newStart) THEN Null
     ELSE [filters |-> [prev EXCEPT !.startYear = newStart, !.endYear = nextEnd],
           update |-> [startYear |-> newStart, endYear |-> nextEnd]]

handleEndYearChange(prev, value) ==
  LET rawEnd == ParseInt(value)
      start == prev.startYear
      nextEnd == IF start # None
                 THEN (IF rawEnd[1] >= start[1] THEN rawEnd ELSE start)
                 ELSE rawEnd
  IN IF ~IsFinite(rawEnd) THEN Null
     ELSE [filters |-> [prev EXCEPT !.endYear = nextEnd],
           update |-> [startYear |-> IF start # None THEN start ELSE nextEnd,
                       endYear |-> nextEnd]]

\* the filters object an Update button hands over; it has no trendIndex
PlotFiltersOf(f) ==
  [parameter |-> f.parameter, selectedSites |-> f.selectedSites, chartType |-> f.chartType,
   startYear |-> f.startYear, endYear |-> f.endYear, trendIndex |-> None]

\* the App takes an update: its filters change, Plots gets the same plotConfigs
\* and rebuilds nothing
TakeUpdate(partialOrFull) ==
  LET next == onFiltersChange([filters |-> appFilters, plotConfigs |-> plotConfigs],
                              partialOrFull)
  IN /\ appFilters' = next.filters
     /\ plotConfigs' = next.plotConfigs
     /\ UNCHANGED <<rawData, charts, filtered, axes, exported, gateVars, tipVars,
                    appVars, fnVars, availableYears, didInitYears, loading, updateEnabled,
                    source, allLocations>>

\* the years the panel gives its own filters once the rows are there, and the
\* update it sends with them
InitYears(prev, years) ==
  [prev EXCEPT !.startYear = IF @ # None THEN @ ELSE <<years[1]>>,
               !.endYear = IF @ # None THEN @ ELSE <<years[Len(years)]>>]

InitYearsUpdate(years) == [startYear |-> <<years[1]>>, endYear |-> <<years[Len(years)]>>]

\* the fetch of the panel ends with rows: options, the years once, then the rows
\* go up to the App and Plots builds the charts of the captured configurations
DataLoaded ==
  /\ loading
  /\ LET years == uniqueYears(source)
     IN /\ availableYears' = years
        /\ IF ~didInitYears /\ Len(years) > 0
           THEN /\ didInitYears' = TRUE
                /\ filters' = InitYears(filters, years)
                /\ appFilters' = Merge(appFilters, InitYearsUpdate(years))
           ELSE UNCHANGED <<didInitYears, filters, appFilters>>
  /\ rawData' = source
  /\ loading' = FALSE
  /\ charts' = [s \in 1..2 |-> ChartFor(rawData', CfgAt(plotConfigs, s))]
  /\ filtered' = [s \in 1..2 |-> FilteredFor(rawData', CfgAt(plotConfigs, s))]
  /\ axes' = [s \in 1..2 |-> AxesFor(charts'[s])]
  /\ UNCHANGED <<plotConfigs, exported, gateVars, tipVars, appVars, fnVars, updateEnabled,
                 source, allLocations>>

\* Continue of the welcome panel
Continue ==
  /\ ~updateEnabled
  /\ updateEnabled' = TRUE
  /\ UNCHANGED <<buildVars, gateVars, tipVars, appVars, fnVars, filters, availableYears,
                 didInitYears, appFilters, loading, source, allLocations>>

\* handleSitesChange with the selection the site list hands over
SitesChange(updated) ==
  /\ filters' = [filters EXCEPT !.selectedSites = updated]
  /\ TakeUpdate([selectedSites |-> updated])

\* handleMarkerClick, and the effect of the panel that follows the prop
MarkerClick(siteName) ==
  LET nextSelected == ToggleSite(appFilters.selectedSites, siteName)
  IN /\ TakeUpdate([selectedSites |-> nextSelected])
     /\ filters' = IF filters.selectedSites = appFilters'.selectedSites THEN filters
                   ELSE [filters EXCEPT !.selectedSites = appFilters'.selectedSites]

\* a year chosen in the start or end select
StartYearChange(y) ==
  LET r == handleStartYearChange(filters, OptionValue(y))
  IN /\ updateEnabled
     /\ filters.startYear # <<y>>
     /\ r # Null
     /\ filters' = r.filters
     /\ TakeUpdate(r.update)

EndYearChange(y) ==
  LET r == handleEndYearChange(filters, OptionValue(y))
  IN /\ updateEnabled
     /\ filters.endYear # <<y>>
     /\ r # Null
     /\ filters' = r.filters
     /\ TakeUpdate(r.update)

ParameterChange(parameter) ==
  /\ updateEnabled
  /\ filters.parameter # parameter
  /\ filters' = [filters EXCEPT !.parameter = parameter]
  /\ TakeUpdate([parameter |-> parameter])

ChartTypeChange(chartType) ==
  /\ updateEnabled
  /\ filters.chartType # chartType
  /\ filters' = [filters EXCEPT !.chartType = chartType]
  /\ TakeUpdate([chartType |-> chartType])

\* a click on an Update button of the panel
ClickUpdate(slot) ==
  /\ updateEnabled
  /\ clicks < MaxCaptures
  /\ UpdatePlot(slot, PlotFiltersOf(filters))

\* the arrows show once Plots has rows
ClickArrow(slot, op) == ~loading /\ clicks < MaxClicks /\ SiteArrow(slot, op)

FilterEdit ==
  \/ \E opt \in uniqueSites(rawData) : SitesChange(ToggleSite(filters.selectedSites, opt))
  \/ SitesChange(<<>>)
  \/ \E siteName \in allLocations : MarkerClick(siteName)
  \/ \E i \in 1..Len(availableYears) : StartYearChange(availableYears[i])
  \/ \E i \in 1..Len(availableYears) : EndYearChange(availableYears[i])
  \/ \E parameter \in uniqueParameters(rawData) : ParameterChange(parameter)
  \/ \E chartType \in {"trend", "comparison"} : ChartTypeChange(chartType)

PanelNext ==
  \/ DataLoaded
  \/ Continue
  \/ FilterEdit
  \/ \E slot \in 1..2 : ClickUpdate(slot)
  \/ \E slot \in 1..2, op \in {"prev", "next"} : ClickArrow(slot, op)

\* the App as mounted: the welcome panel shown, the fetch of the panel under way
PanelInit ==
  /\ rawData = <<>>
  /\ plotConfigs = <<>>
  /\ charts = <<Null, Null>>
  /\ filtered = <<(<<>>), (<<>>)>>
  /\ axes = <<AxesFor(Null), AxesFor(Null)>>
  /\ exported = Null
  /\ GateIdle
  /\ FnIdle
  /\ AppIdle
  /\ filters = InitialFilters
  /\ availableYears = <<>>
  /\ didInitYears = FALSE
  /\ appFilters = InitialFilters
  /\ loading = TRUE
  /\ updateEnabled = FALSE
  /\ \E f \in Fetched : source = f.source /\ allLocations = f.allLocations

SpecPanel == PanelInit /\ [][PanelNext]_vars

\* C29: a slot's plot configuration is a snapshot. No filter edit (site list,
\* map marker, start or end year, parameter, chart type) changes plotConfigs, and
\* the configuration of a slot changes only in a step of that slot's Update button
\* or of one of its arrows.
C29_ConfigIsSnapshot ==
  [][/\ FilterEdit => plotConfigs' = plotConfigs
     /\ \A slot \in 1..2 :
          CfgAt(plotConfigs', slot) # CfgAt(plotConfigs, slot)
            => \/ ClickUpdate(slot)
               \/ \E op \in {"prev", "next"} : ClickArrow(slot, op)]_vars

\* a configuration captured before the rows arrived, and filters that have since
\* moved away from it in every field
C29_Witness ==
  /\ Len(plotConfigs) = 2
  /\ plotConfigs[1] # Null
  /\ plotConfigs[1].selectedSites # filters.selectedSites
  /\ plotConfigs[1].startYear # filters.startYear
  /\ plotConfigs[1].endYear # filters.endYear
  /\ plotConfigs[1].parameter # filters.parameter
  /\ plotConfigs[1].chartType # filters.chartType
  /\ appFilters.selectedSites = filters.selectedSites

YearsOrdered(f) ==
  /\ f.startYear # None
  /\ f.endYear # None
  /\ f.startYear[1] <= f.endYear[1]

\* C30: once the panel has initialized the years, startYear <= endYear holds in
\* its local filters, the filters of the App hold the same two years, and every
\* update of the years the panel sends (the one of the initialization, and the one
\* of each year the selects offer) has startYear <= endYear.
C30_YearsOrdered ==
  didInitYears =>
    /\ YearsOrdered(filters)
    /\ appFilters.startYear = filters.startYear
    /\ appFilters.endYear = filters.endYear
    /\ YearsOrdered(InitYearsUpdate(availableYears))
    /\ \A i \in 1..Len(availableYears) :
         LET value == OptionValue(availableYears[i])
             s == handleStartYearChange(filters, value)
             e == handleEndYearChange(filters, value)
         IN /\ s # Null => YearsOrdered(s.update)
            /\ e # Null => YearsOrdered(e.update)

\* the start year moved to the last year of the rows, and the end year with it
C30_Witness ==
  /\ didInitYears
  /\ Len(availableYears) = 2
  /\ filters.startYear = <<availableYears[2]>>
  /\ filters.endYear = <<availableYears[2]>>
  /\ appFilters.startYear = filters.startYear
  /\ appFilters.endYear = filters.endYear

====
